---- MODULE Spec2Model ----
(***************************************************************************)
(* State-machine model of ToggleTalkServer/ToggleTalkBotServer.py: the     *)
(* command interpreter, the device registry, the scheduler loop, the       *)
(* pending-notification collection and their persistence files.            *)
(***************************************************************************)
EXTENDS Integers, Sequences, FiniteSets, TLC

(***************************************************************************)
(* Bounds of the model.                                                    *)
(***************************************************************************)
MaxMessages == 1
MaxTime == 2
MaxRestarts == 1
Backlog == 99
LogBacklog == 21
MaxDirectAdds == 1
MaxAlerts == 1
MaxFaults == 1
MaxSecurityCommands == 2

(***************************************************************************)
(* Program constants.                                                      *)
(***************************************************************************)
MaxPending == 100
max_retries == 3
OverflowDigits == 15
\* for attempt in range(3) of every load_* function
load_attempts == 3

Devices == {"light", "ac", "washing_machine"}

(***************************************************************************)
(* Text primitives: Python's `in`, str.startswith, str.split, str.lower.   *)
(***************************************************************************)
Contains(t, p) ==
    \E i \in 1..(Len(t) - Len(p) + 1) : SubSeq(t, i, i + Len(p) - 1) = p

StartsWith(t, p) == Len(t) >= Len(p) /\ SubSeq(t, 1, Len(p)) = p

CharAt(t, i) == SubSeq(t, i, i)

IsSpace(c) == c = " "

IsDigit(c) == c \in {"0", "1", "2", "3", "4", "5", "6", "7", "8", "9"}

\* w in t.split(): w is a maximal whitespace-free run of t
HasToken(t, w) ==
    \E i \in 1..(Len(t) - Len(w) + 1) :
        /\ SubSeq(t, i, i + Len(w) - 1) = w
        /\ (i = 1 \/ IsSpace(CharAt(t, i - 1)))
        /\ (i + Len(w) - 1 = Len(t) \/ IsSpace(CharAt(t, i + Len(w))))

UpperLetters == "ABCDEFGHIJKLMNOPQRSTUVWXYZ"

LowerLetters == "abcdefghijklmnopqrstuvwxyz"

LowerChar(c) ==
    LET hits == {i \in 1..Len(UpperLetters) : CharAt(UpperLetters, i) = c}
    IN  IF hits = {} THEN c ELSE CharAt(LowerLetters, CHOOSE i \in hits : TRUE)

RECURSIVE Lower(_)
Lower(t) ==
    IF Len(t) = 0 THEN "" ELSE LowerChar(CharAt(t, 1)) \o Lower(SubSeq(t, 2, Len(t)))

(***************************************************************************)
(* re.search(r'in\s+(\d+)\s+(second|seconds|minute|minutes|hour|hours)')   *)
(***************************************************************************)
\* the last index of the run of characters of one class that starts at i
\* (i - 1 when the run is empty)
RECURSIVE SpaceRun(_, _)
SpaceRun(t, i) ==
    IF i <= Len(t) /\ IsSpace(CharAt(t, i)) THEN SpaceRun(t, i + 1) ELSE i - 1

RECURSIVE DigitRun(_, _)
DigitRun(t, i) ==
    IF i <= Len(t) /\ IsDigit(CharAt(t, i)) THEN DigitRun(t, i + 1) ELSE i - 1

DigitValue(c) ==
    CASE c = "0" -> 0 [] c = "1" -> 1 [] c = "2" -> 2 [] c = "3" -> 3 [] c = "4" -> 4
      [] c = "5" -> 5 [] c = "6" -> 6 [] c = "7" -> 7 [] c = "8" -> 8 [] c = "9" -> 9

RECURSIVE ParseInt(_)
ParseInt(d) ==
    IF Len(d) = 0 THEN 0
    ELSE 10 * ParseInt(SubSeq(d, 1, Len(d) - 1)) + DigitValue(CharAt(d, Len(d)))

\* a run of digits without its leading zeros
RECURSIVE StripZeros(_)
StripZeros(d) ==
    IF Len(d) > 0 /\ CharAt(d, 1) = "0" THEN StripZeros(SubSeq(d, 2, Len(d))) ELSE d

\* timedelta(seconds=n), timedelta(minutes=n) and timedelta(hours=n) raise
\* OverflowError above 999999999 days, about 8.64 * 10^13 seconds: every n of
\* 15 digits or more raises, whatever the unit
Overflows(d) == Len(StripZeros(d)) >= OverflowDigits

UnitWords == <<"second", "seconds", "minute", "minutes", "hour", "hours">>

\* the unit alternative matched at position i, "" when none matches
UnitAt(t, i) ==
    LET rest == SubSeq(t, i, Len(t))
        hits == {k \in 1..Len(UnitWords) : StartsWith(rest, UnitWords[k])}
    IN  IF hits = {} THEN ""
        ELSE UnitWords[CHOOSE k \in hits : \A j \in hits : k <= j]

TimeMatchAt(t, i) ==
    LET s1 == SpaceRun(t, i + 2)
        d  == DigitRun(t, s1 + 1)
        s2 == SpaceRun(t, d + 1)
    IN  IF /\ i + 1 <= Len(t)
           /\ SubSeq(t, i, i + 1) = "in"
           /\ s1 >= i + 2
           /\ d >= s1 + 1
           /\ s2 >= d + 1
           /\ UnitAt(t, s2 + 1) # ""
        THEN [matched |-> TRUE,
              amount |-> IF Overflows(SubSeq(t, s1 + 1, d)) THEN 0
                         ELSE ParseInt(SubSeq(t, s1 + 1, d)),
              unit |-> UnitAt(t, s2 + 1),
              overflow |-> Overflows(SubSeq(t, s1 + 1, d))]
        ELSE [matched |-> FALSE, amount |-> 0, unit |-> "", overflow |-> FALSE]

time_match(t) ==
    LET starts == {i \in 1..Len(t) : TimeMatchAt(t, i).matched}
    IN  IF starts = {} THEN [matched |-> FALSE, amount |-> 0, unit |-> "", overflow |-> FALSE]
        ELSE TimeMatchAt(t, CHOOSE i \in starts : \A j \in starts : i <= j)

\* timedelta(seconds=amount) / timedelta(minutes=amount) / timedelta(hours=amount),
\* in seconds
Duration(amount, unit) ==
    IF Contains(unit, "second") THEN amount
    ELSE IF Contains(unit, "minute") THEN 60 * amount
    ELSE IF Contains(unit, "hour") THEN 3600 * amount
    ELSE -1

(***************************************************************************)
(* State.                                                                  *)
(***************************************************************************)
VARIABLES
    GPIO_AVAILABLE,            \* RPi.GPIO imported: hardware mode, else simulation
    gpio_pins,                 \* level of every output pin
    home_devices,              \* device -> status
    security_system_active,
    chat_ids, chat_ids_file,
    scheduled_tasks, tasks_file,
    pending_notifications, notifications_file,
    events_log,                \* events.log, one record per line
    notification_queue,
    scheduler_running,
    sched_pc,                  \* position of the scheduler thread in _scheduler_loop
    current_time,              \* the tick's datetime.now()
    task_idx,                  \* position of the tick's for loop in scheduled_tasks
    tasks_to_remove,
    now,                       \* the wall clock, in seconds
    total_messages_processed,
    restarts,                  \* process restarts so far
    alerts,                    \* security alerts raised so far
    last,                      \* the last completed API call: its input and result
    last_get,                  \* result of the last get_pending_notifications
    direct_adds,               \* direct add_pending_notification calls so far
    received,                  \* messages received so far, over all runs
    created,                   \* history: every task a scheduling command created
    available,                 \* history: the tasks this run loaded or created
    executed,                  \* history: every _execute_scheduled_task call
    loads,                     \* file -> attempts and backup copies of its last load
    adding,                    \* add_pending_notification calls between append and save
    completed,                 \* history: the notifications of the calls that returned
    phase,                     \* main(): serving, joining, stopped or exited
    previous_pc,               \* position of a scheduler thread that outlived the join of
                               \* stop_scheduler and is not self.scheduler_thread any more
    tasks_to_save              \* the list a save_scheduled_tasks of the tick has built and
                               \* not yet written

vars == <<GPIO_AVAILABLE, gpio_pins, home_devices, security_system_active,
          chat_ids, chat_ids_file, scheduled_tasks, tasks_file,
          pending_notifications, notifications_file, events_log,
          notification_queue, scheduler_running, sched_pc, current_time,
          task_idx, tasks_to_remove, now, total_messages_processed, restarts,
          alerts, last, last_get, direct_adds, received, created, available, executed,
          loads, adding, completed, phase, previous_pc, tasks_to_save>>

OutputPins == Devices \cup {"laser_module", "buzzer"}

\* keys of GPIO_PINS
GPIO_PINS == OutputPins \cup {"ldr_sensor"}

Users == {[name |-> "Alice", id |-> 1]}

Messages ==
    {"Turn on the light", "turn off the light", "switch on the ac",
     "turn on the washing machine", "schedule light on in 5 seconds",
     "schedule turn on light in 2 seconds",
     "schedule switch off light in 1 second",
     "timer switch off washing machine in 1 minute",
     "initialize security system", "terminate security system",
     "status", "hello", "open the door"}

\* commands that name the washing machine, alone and next to another device
WashMessages ==
    {"turn on the washing machine", "switch off the ac and the washing machine",
     "Turn OFF washing machine light"}

\* the log query, and a command that logs an event
LogMessages == {"log details", "Turn on the light"}

\* a scheduling command whose delay timedelta cannot hold
FaultMessages == {"schedule turn on light in 999999999999999 seconds"}

\* texts with 'schedule' or 'timer' next to device, action and security keywords
KeywordMessages ==
    {"schedule turn on light in 2 seconds",
     "timer switch off washing machine in 1 minute",
     "schedule initialize security system in 1 second",
     "turn on the light timer",
     "Schedule: switch on ac",
     "schedule light on in 5 seconds",
     "schedule turn on in 3 seconds"}

\* security commands, one for each secondary keyword group and a query
SecurityMessages ==
    {"initialize security system", "arm the security system",
     "terminate security system", "stop intruder detection",
     "disarm security system", "deactivate the laser",
     "security status"}

\* every message text some specification sends
Inputs ==
    Messages \cup WashMessages \cup LogMessages \cup FaultMessages \cup KeywordMessages
        \cup SecurityMessages

\* how many of the next GPIO calls raise
FailCounts == 0..max_retries

\* what the outside does to one handler call: how many GPIO.output attempts
\* raise, whether a save gets through in its 3 attempts, whether the append
\* to the events log gets through
WriteEnvs == [fails : FailCounts, save_ok : BOOLEAN, log_ok : BOOLEAN]

Envs == {env \in WriteEnvs : env.log_ok}

AnyIn(t, kws) == \E k \in kws : Contains(t, k)

OnKeywords == {"turn on", "switch on"}

OffKeywords == {"turn off", "switch off"}

get_device_user_name(device_name) ==
    CASE device_name = "light" -> "Light"
      [] device_name = "ac" -> "Air Conditioner"
      [] device_name = "washing_machine" -> "Washing Machine"
      [] OTHER -> device_name

(***************************************************************************)
(* The handlers below are functions from the memory m they read (a record  *)
(* of the fields they may write, plus the counters `added` and `results`)  *)
(* to the memory they leave.                                               *)
(***************************************************************************)
CHAT_IDS_FILE == "chat_ids.json"
SCHEDULED_TASKS_FILE == "scheduled_tasks.json"
PENDING_NOTIFICATIONS_FILE == "pending_notifications.json"
FileNames == {CHAT_IDS_FILE, SCHEDULED_TASKS_FILE, PENDING_NOTIFICATIONS_FILE}

Memory ==
    [home_devices |-> home_devices, gpio_pins |-> gpio_pins,
     security |-> security_system_active,
     chat_ids |-> chat_ids, chat_ids_file |-> chat_ids_file,
     scheduled_tasks |-> scheduled_tasks, tasks_file |-> tasks_file,
     pending |-> pending_notifications, notif_file |-> notifications_file,
     events_log |-> events_log, queue |-> notification_queue,
     created |-> created, loads |-> loads,
     added |-> 0,              \* add_pending_notification calls of this handler
     results |-> <<>>]         \* control_gpio_device results of this handler

\* hashlib.md5(f"{text}{timestamp}"): a function of the text and the timestamp
NotificationId(notification_text, timestamp) == <<notification_text, timestamp>>

\* faulty variant: the list is never cut
KeepAll(seq, n) == seq

\* faulty variant: the cut keeps the head of the list, [:100]
KeepFirst(seq, n) == IF Len(seq) > n THEN SubSeq(seq, 1, n) ELSE seq

\* self.pending_notifications[-100:]
LastN(seq, n) == IF Len(seq) > n THEN SubSeq(seq, Len(seq) - n + 1, Len(seq)) ELSE seq

add_pending_notification(m, notification_text, timestamp, env) ==
    LET notification == [text |-> notification_text, timestamp |-> timestamp,
                         id |-> NotificationId(notification_text, timestamp)]
        kept == LastN(Append(m.pending, notification), MaxPending)
    IN  [m EXCEPT !.pending = kept,
                  !.notif_file = IF env.save_ok THEN kept ELSE @,
                  !.added = @ + 1]

log_event(m, event_type, message, user_name, user_id, env) ==
    IF env.log_ok
    THEN [m EXCEPT !.events_log =
            Append(@, [timestamp |-> now, event_type |-> event_type, message |-> message,
                       user_name |-> user_name, user_id |-> user_id])]
    ELSE m

add_chat_id(m, chat_id, env) ==
    IF chat_id \notin m.chat_ids
    THEN [m EXCEPT !.chat_ids = @ \cup {chat_id},
                   !.chat_ids_file = IF env.save_ok THEN m.chat_ids \cup {chat_id} ELSE @]
    ELSE m

\* faulty variant: GPIO.output is tried once
RetryOnce(attempt, fails) == [success |-> fails = 0, attempts |-> 1]

\* for attempt in range(max_retries): GPIO.output raises on the first `fails`
\* attempts; an attempt that does not raise returns True, a raising one is
\* followed by a sleep and the next attempt, the last one by return False
RECURSIVE RetryLoop(_, _)
RetryLoop(attempt, fails) ==
    IF attempt >= fails THEN [success |-> TRUE, attempts |-> attempt + 1]
    ELSE IF attempt < max_retries - 1 THEN RetryLoop(attempt + 1, fails)
    ELSE [success |-> FALSE, attempts |-> attempt + 1]

\* the retry loop's outcome for each number of raising attempts
Retried == [fails \in 0..max_retries |-> RetryLoop(0, fails)]

\* control_gpio_device: True in simulation, False for a device or an action
\* it does not know, else the retry loop; `attempts` counts GPIO.output calls
GpioOutcome(device_name, action, fails) ==
    IF ~GPIO_AVAILABLE THEN [success |-> TRUE, attempts |-> 0]
    ELSE IF device_name \notin GPIO_PINS THEN [success |-> FALSE, attempts |-> 0]
    ELSE IF action \notin {"on", "off"} THEN [success |-> FALSE, attempts |-> 0]
    ELSE Retried[fails]

GpioSucceeds(device_name, action, fails) ==
    IF ~GPIO_AVAILABLE THEN TRUE
    ELSE IF device_name \notin GPIO_PINS THEN FALSE
    ELSE IF action \notin {"on", "off"} THEN FALSE
    ELSE Retried[fails].success

control_gpio_device(m, device_name, action, env) ==
    LET success == GpioSucceeds(device_name, action, env.fails)
    IN  [m EXCEPT !.gpio_pins =
                      IF GPIO_AVAILABLE /\ success
                      THEN [@ EXCEPT ![device_name] = IF action = "on" THEN "LOW" ELSE "HIGH"]
                      ELSE @,
                  !.results = Append(@, success)]

LastResult(m) == m.results[Len(m.results)]

(***************************************************************************)
(* process_home_automation and the handlers it calls. A reply is the       *)
(* source's text without its leading emoji; a wall-clock time printed in a *)
(* text is the clock value.                                                *)
(***************************************************************************)
Upper(action) == IF action = "on" THEN "ON" ELSE "OFF"

ErrorName(device_name) ==
    IF device_name = "light" THEN "light" ELSE get_device_user_name(device_name)

\* one 'turn on' / 'turn off' branch of a device: the status is written, then
\* the pin is driven
DeviceSwitch(m, device_name, action, user_name, env) ==
    LET m1 == [m EXCEPT !.home_devices[device_name] = action]
        m2 == control_gpio_device(m1, device_name, action, env)
    IN  IF LastResult(m2)
        THEN [m |-> log_event(m2, "device_control",
                              get_device_user_name(device_name) \o " turned " \o Upper(action),
                              user_name, "None", env),
              reply |-> get_device_user_name(device_name) \o " turned " \o Upper(action) \o "."]
        ELSE [m |-> m2,
              reply |-> "Error turning " \o action \o " " \o ErrorName(device_name)
                        \o ". Please try again."]

DeviceBranch(m, a, device_name, user_name, env) ==
    IF a.action = "on" THEN DeviceSwitch(m, device_name, "on", user_name, env)
    ELSE IF a.action = "off" THEN DeviceSwitch(m, device_name, "off", user_name, env)
    ELSE [m |-> m,
          reply |-> get_device_user_name(device_name) \o " is currently "
                    \o m.home_devices[device_name] \o "."]

SimulationReply ==
    "Security system requires Raspberry Pi with GPIO support. Running in simulation mode."

\* faulty variant: an active system is not initialized again
initialize_once(m, user_name, env) ==
    IF ~GPIO_AVAILABLE THEN [m |-> m, reply |-> SimulationReply]
    ELSE IF env.fails > 0
    THEN [m |-> m, reply |-> "Error initializing security system"]
    ELSE IF m.security
    THEN [m |-> m,
          reply |-> "Home Security System INITIALIZED. Laser module activated and monitoring for intruders."]
    ELSE [m |-> add_pending_notification(
                    [m EXCEPT !.gpio_pins["laser_module"] = "HIGH",
                              !.gpio_pins["buzzer"] = "LOW",
                              !.security = TRUE],
                    [kind |-> "security", actor |-> user_name, what |-> "INITIALIZED",
                     at |-> now], now, env),
          reply |-> "Home Security System INITIALIZED. Laser module activated and monitoring for intruders."]

initialize_security_system(m, user_name, env) ==
    IF ~GPIO_AVAILABLE THEN [m |-> m, reply |-> SimulationReply]
    ELSE IF env.fails > 0
    THEN [m |-> m, reply |-> "Error initializing security system"]
    ELSE LET m1 == [m EXCEPT !.gpio_pins["laser_module"] = "HIGH",
                             !.gpio_pins["buzzer"] = "LOW",
                             !.security = TRUE]
             m2 == log_event(m1, "security_system_activated",
                             "Home security system activated by " \o user_name,
                             user_name, "None", env)
             m3 == add_pending_notification(m2,
                       [kind |-> "security", actor |-> user_name, what |-> "INITIALIZED",
                        at |-> now], now, env)
         IN  [m |-> m3,
              reply |-> "Home Security System INITIALIZED. Laser module activated and monitoring for intruders."]

terminate_security_system(m, user_name, env) ==
    IF ~GPIO_AVAILABLE THEN [m |-> m, reply |-> SimulationReply]
    ELSE IF env.fails > 0
    THEN [m |-> m, reply |-> "Error terminating security system"]
    ELSE LET m1 == [m EXCEPT !.gpio_pins["laser_module"] = "LOW",
                             !.gpio_pins["buzzer"] = "LOW",
                             !.security = FALSE]
             m2 == log_event(m1, "security_system_deactivated",
                             "Home security system deactivated by " \o user_name,
                             user_name, "None", env)
             m3 == add_pending_notification(m2,
                       [kind |-> "security", actor |-> user_name, what |-> "TERMINATED",
                        at |-> now], now, env)
         IN  [m |-> m3,
              reply |-> "Home Security System TERMINATED. All modules deactivated."]

\* the secondary keywords of the security branch
SecurityIntent(text) ==
    IF AnyIn(text, {"initialize", "start", "activate", "arm"}) THEN "initialize"
    ELSE IF AnyIn(text, {"terminate", "stop", "deactivate", "disarm"}) THEN "terminate"
    ELSE "query"

SecurityBranch(m, a, user_name, env) ==
    IF a.intent = "initialize"
    THEN LET r == initialize_security_system(m, user_name, env)
         IN  [m |-> log_event(r.m, "security_system", "Security system initialized",
                              user_name, "None", env),
              reply |-> r.reply]
    ELSE IF a.intent = "terminate"
    THEN LET r == terminate_security_system(m, user_name, env)
         IN  [m |-> log_event(r.m, "security_system", "Security system terminated",
                              user_name, "None", env),
              reply |-> r.reply]
    ELSE [m |-> m,
          reply |-> "Home Security System is currently "
                    \o (IF m.security THEN "ACTIVE" ELSE "INACTIVE") \o "."]

\* faulty variant: a text that names no device means the light
DeviceOrLight(text) ==
    IF Contains(text, "ac") \/ Contains(text, "air condition") THEN "ac"
    ELSE IF Contains(text, "washing machine") THEN "washing_machine"
    ELSE "light"

\* the device the scheduling sub-parser, generate_response and send_message
\* derive from the text: light, then any 'ac', then washing machine
LooseDevice(text) ==
    IF Contains(text, "light") THEN "light"
    ELSE IF Contains(text, "ac") \/ Contains(text, "air condition") THEN "ac"
    ELSE IF Contains(text, "washing machine") THEN "washing_machine"
    ELSE "None"

ScheduleAction(text) ==
    IF AnyIn(text, OnKeywords) THEN "on"
    ELSE IF AnyIn(text, OffKeywords) THEN "off"
    ELSE "None"

\* stands for a call that did not return: timedelta raised OverflowError
OverflowError == "OverflowError"

UnsupportedFormatReply ==
    "Unsupported schedule format. Try: 'Schedule light on in 30 seconds' or 'Schedule light on in 5 minutes' or 'Schedule ac off in 1 hour'"

\* faulty variant: a save that fails undoes the change in memory
save_or_undo(m, env) ==
    IF env.save_ok THEN [m EXCEPT !.tasks_file = m.scheduled_tasks]
    ELSE [m EXCEPT !.scheduled_tasks = m.tasks_file]

save_scheduled_tasks(m, env) ==
    [m EXCEPT !.tasks_file = IF env.save_ok THEN m.scheduled_tasks ELSE @]

_process_scheduled_command(m, a, user_name, env) ==
    LET tm == a.tm
    IN  IF ~tm.matched THEN [m |-> m, reply |-> UnsupportedFormatReply]
        ELSE IF tm.overflow THEN [m |-> m, reply |-> OverflowError]
        ELSE IF Duration(tm.amount, tm.unit) < 0
        THEN [m |-> m, reply |-> "Unsupported time unit. Please use seconds, minutes or hours."]
        ELSE LET scheduled_time == now + Duration(tm.amount, tm.unit)
                 device_name == a.loose
                 action == a.action
                 task == [device |-> device_name, action |-> action,
                          scheduled_time |-> scheduled_time, user_name |-> user_name]
             IN  IF device_name # "None" /\ action # "None"
                 THEN LET m1 == [m EXCEPT !.scheduled_tasks = Append(@, task),
                                          !.created = Append(@, task)]
                          m2 == save_scheduled_tasks(m1, env)
                          m3 == log_event(m2, "scheduled_task_created",
                                    "Scheduled " \o get_device_user_name(device_name)
                                    \o " to turn " \o Upper(action) \o " at "
                                    \o ToString(scheduled_time), user_name, "None", env)
                      IN  [m |-> m3,
                           reply |-> "Scheduled " \o get_device_user_name(device_name)
                                     \o " to turn " \o Upper(action) \o " at "
                                     \o ToString(scheduled_time) \o "."]
                 ELSE [m |-> m,
                       reply |-> "Could not determine device or action for scheduling."]

\* the air-conditioner heuristics of process_home_automation
MatchesAc(text) ==
    \/ Contains(text, "ac ")
    \/ Contains(text, " air condition")
    \/ StartsWith(text, "ac")
    \/ text = "ac"
    \/ HasToken(text, "ac")

\* faulty variant: the air-conditioner keywords are tested before 'washing machine'
BranchAcFirst(text) ==
    IF Contains(text, "schedule") \/ Contains(text, "timer") THEN "schedule"
    ELSE IF MatchesAc(text) THEN "ac"
    ELSE IF Contains(text, "washing machine") THEN "washing_machine"
    ELSE IF Contains(text, "light") THEN "light"
    ELSE IF AnyIn(text, {"security", "laser", "intruder"}) THEN "security"
    ELSE "none"

\* faulty variant: 'schedule' and 'timer' are tested after the other keywords
BranchScheduleLast(text) ==
    IF Contains(text, "washing machine") THEN "washing_machine"
    ELSE IF MatchesAc(text) THEN "ac"
    ELSE IF Contains(text, "light") THEN "light"
    ELSE IF AnyIn(text, {"security", "laser", "intruder"}) THEN "security"
    ELSE IF Contains(text, "schedule") \/ Contains(text, "timer") THEN "schedule"
    ELSE "none"

\* the branch process_home_automation takes for a lower-cased text
Branch(text) ==
    IF Contains(text, "schedule") \/ Contains(text, "timer") THEN "schedule"
    ELSE IF Contains(text, "washing machine") THEN "washing_machine"
    ELSE IF MatchesAc(text) THEN "ac"
    ELSE IF Contains(text, "light") THEN "light"
    ELSE IF AnyIn(text, {"security", "laser", "intruder"}) THEN "security"
    ELSE "none"

\* the branch generate_response takes when process_home_automation returns ""
FreeIntent(text) ==
    IF Contains(text, "log details") THEN "log"
    ELSE IF AnyIn(text, {"hello", "hi", "hey", "greetings"}) THEN "greeting"
    ELSE IF AnyIn(text, {"help", "what can you do", "commands"}) THEN "help"
    ELSE IF AnyIn(text, {"status", "state", "how is"}) THEN "status"
    ELSE "fallback"

MaxMessageLen == 1000

Truncated(message) ==
    IF Len(message) > MaxMessageLen THEN SubSeq(message, 1, MaxMessageLen) \o "..."
    ELSE message

\* every keyword test the handlers make on one message (send_message truncates
\* it, the handlers lower-case it)
Analysis(raw_message) ==
    LET message == Truncated(raw_message)
        text == Lower(message)
    IN  [message |-> message,
         branch |-> Branch(text),
         action |-> ScheduleAction(text),
         loose |-> LooseDevice(text),
         tm |-> time_match(text),
         intent |-> SecurityIntent(text),
         free |-> FreeIntent(text),
         schedule_kw |-> Contains(text, "schedule"),
         security_kw |-> AnyIn(text, {"initialize", "start", "activate", "arm",
                                      "terminate", "stop", "deactivate", "disarm"})]

Analyzed == [raw_message \in Inputs |-> Analysis(raw_message)]

process_home_automation(m, a, user_name, env) ==
    IF a.branch = "schedule" THEN _process_scheduled_command(m, a, user_name, env)
    ELSE IF a.branch \in Devices THEN DeviceBranch(m, a, a.branch, user_name, env)
    ELSE IF a.branch = "security" THEN SecurityBranch(m, a, user_name, env)
    ELSE [m |-> m, reply |-> ""]

(***************************************************************************)
(* get_log_details: newest first (list.sort is stable), the first LogLimit *)
(***************************************************************************)
LogLimit == 20

RECURSIVE InsertDesc(_, _)
InsertDesc(sorted, e) ==
    IF sorted = <<>> THEN <<e>>
    ELSE IF Head(sorted).timestamp >= e.timestamp
         THEN <<Head(sorted)>> \o InsertDesc(Tail(sorted), e)
         ELSE <<e>> \o sorted

\* faulty variant: the entries stay in file order
KeepOrder(entries) == entries

RECURSIVE SortDesc(_)
SortDesc(entries) ==
    IF entries = <<>> THEN <<>>
    ELSE InsertDesc(SortDesc(SubSeq(entries, 1, Len(entries) - 1)), entries[Len(entries)])

get_log_details(log) ==
    LET log_entries == SortDesc(log)
    IN  IF log_entries = <<>> THEN [reply |-> "No log entries found.", listed |-> <<>>]
        ELSE [reply |-> "DETAILED SERVER LOGS Total Events: " \o ToString(Len(log_entries)),
              listed |-> SubSeq(log_entries, 1,
                                IF Len(log_entries) < LogLimit THEN Len(log_entries)
                                ELSE LogLimit)]

StatusReply(m, user_name) ==
    user_name \o ", Current Device Status: Light: " \o m.home_devices["light"]
      \o " Air Conditioner: " \o m.home_devices["ac"]
      \o " Washing Machine: " \o m.home_devices["washing_machine"]
      \o " Home Security System: " \o (IF m.security THEN "ACTIVE" ELSE "INACTIVE")

DeviceNotification(user_name, device_name, action) ==
    [kind |-> "device", actor |-> user_name,
     what |-> get_device_user_name(device_name) \o " turned " \o action, at |-> now]

EchoNotification(user_name, message) ==
    [kind |-> "echo", actor |-> user_name, what |-> message, at |-> now]

\* process_home_automation raises on this message, and generate_response
\* with it
Raises(a) == a.branch = "schedule" /\ a.tm.matched /\ a.tm.overflow

\* generate_response once process_home_automation has returned r
after_home_automation(r, a, user_name, env) ==
        IF r.reply # ""
        THEN IF a.action # "None" /\ a.loose # "None" /\ ~Raises(a)
             THEN [m |-> add_pending_notification(r.m,
                            DeviceNotification(user_name, a.loose, Upper(a.action)),
                            now, env),
                   reply |-> r.reply, listed |-> <<>>]
             ELSE [m |-> r.m, reply |-> r.reply, listed |-> <<>>]
        ELSE IF a.free = "log"
        THEN [m |-> r.m] @@ get_log_details(r.m.events_log)
        ELSE IF a.free = "greeting"
        THEN [m |-> r.m, reply |-> "Hello " \o user_name \o "! Welcome to ToggleTalk Server!",
              listed |-> <<>>]
        ELSE IF a.free = "help"
        THEN [m |-> r.m,
              reply |-> "Hello " \o user_name \o "! I can help you control your home appliances and security system!",
              listed |-> <<>>]
        ELSE IF a.free = "status"
        THEN [m |-> r.m, reply |-> StatusReply(r.m, user_name), listed |-> <<>>]
        ELSE [m |-> r.m,
              reply |-> "Sorry " \o user_name \o ", I didn't understand that command.",
              listed |-> <<>>]

generate_response(m, a, user_id, user_name, env) ==
    after_home_automation(process_home_automation(m, a, user_name, env), a, user_name, env)

QueuePut(m, item) == [m EXCEPT !.queue = Append(@, item)]

\* faulty variant: no except clause around generate_response
Unguarded(a, response, user_name) == response

\* try: response = server.generate_response(...) except Exception: the
\* generic failure reply
Boundary(a, response, user_name) ==
    IF Raises(a)
    THEN "Sorry " \o user_name \o ", I encountered an error processing your request."
    ELSE response

\* send_message once generate_response has returned r or raised
after_generate_response(r, a, user, env) ==
    LET echo == EchoNotification(user.name, a.message)
        notified ==
            IF a.action # "None" \/ a.schedule_kw
            THEN IF a.loose # "None" /\ ~a.schedule_kw
                 THEN QueuePut(add_pending_notification(r.m, echo, now, env), echo)
                 ELSE r.m
            ELSE IF a.security_kw
            THEN QueuePut(add_pending_notification(r.m, echo, now, env), echo)
            ELSE r.m
    IN  [m |-> notified, reply |-> Boundary(a, r.reply, user.name), listed |-> r.listed]

\* the body of the /api/send_message route
send_message(m, raw_message, user, env) ==
    after_generate_response(
        generate_response(add_chat_id(m, user.id, env), Analyzed[raw_message],
                          user.id, user.name, env),
        Analyzed[raw_message], user, env)

(***************************************************************************)
(* Actions. Each takes the sets its inputs are drawn from.                 *)
(***************************************************************************)
NoGet == [valid |-> FALSE, result |-> <<>>, again |-> FALSE]

\* the variables a handler writes; the history of this run's tasks follows
\* the tasks the handler created
Commit(m) ==
    /\ home_devices' = m.home_devices
    /\ gpio_pins' = m.gpio_pins
    /\ security_system_active' = m.security
    /\ chat_ids' = m.chat_ids
    /\ chat_ids_file' = m.chat_ids_file
    /\ scheduled_tasks' = m.scheduled_tasks
    /\ tasks_file' = m.tasks_file
    /\ pending_notifications' = m.pending
    /\ notifications_file' = m.notif_file
    /\ events_log' = m.events_log
    /\ notification_queue' = m.queue
    /\ created' = m.created
    /\ available' = available \o SubSeq(m.created, Len(created) + 1, Len(m.created))
    /\ last_get' = IF m.added > 0 THEN NoGet ELSE last_get
    /\ loads' = m.loads

HeadIsOldest(pending) ==
    \A i \in 1..Len(pending) : pending[1].timestamp <= pending[i].timestamp

Call(op, message, user_name, reply, listed, m) ==
    [op |-> op, message |-> message, user_name |-> user_name, reply |-> reply,
     listed |-> listed, before |-> home_devices, after |-> m.home_devices,
     added |-> m.added, results |-> m.results, at |-> now,
     len_before |-> Len(pending_notifications),
     head_oldest |-> HeadIsOldest(pending_notifications),
     new_tasks |-> SubSeq(m.created, Len(created) + 1, Len(m.created)),
     persisted |-> m.tasks_file = m.scheduled_tasks]

\* POST /api/send_message
SendMessage(messages, envs) ==
    /\ phase # "exited"
    /\ UNCHANGED <<adding, completed, phase, previous_pc, tasks_to_save>>
    /\ received < MaxMessages
    /\ received' = received + 1
    /\ \E message \in messages, user \in Users, env \in envs :
          LET r == send_message(Memory, message, user, env)
          IN  /\ Commit(r.m)
              /\ last' = Call("send_message", message, user.name, r.reply, r.listed, r.m)
    /\ total_messages_processed' = total_messages_processed + 1
    /\ UNCHANGED <<GPIO_AVAILABLE, scheduler_running, sched_pc, current_time, task_idx,
                   tasks_to_remove, now, restarts, alerts, direct_adds, executed>>

\* POST /api/send_message with a security command; total_messages_processed
\* counts them
SendSecurity(messages, envs) ==
    /\ phase # "exited"
    /\ total_messages_processed < MaxSecurityCommands
    /\ \E message \in messages, user \in Users, env \in envs :
          LET r == send_message(Memory, message, user, env)
          IN  /\ Commit(r.m)
              /\ last' = Call("send_message", message, user.name, r.reply, r.listed, r.m)
    /\ total_messages_processed' = total_messages_processed + 1
    /\ UNCHANGED <<received, GPIO_AVAILABLE, scheduler_running, sched_pc, current_time,
                   task_idx, tasks_to_remove, now, restarts, alerts, direct_adds, executed,
                   adding, completed, phase, previous_pc, tasks_to_save>>

\* POST /api/send_message with a message that makes generate_response raise;
\* total_messages_processed counts it
SendFaulty(envs) ==
    /\ phase # "exited"
    /\ total_messages_processed < MaxFaults
    /\ \E message \in FaultMessages, user \in Users, env \in envs :
          LET r == send_message(Memory, message, user, env)
          IN  /\ Commit(r.m)
              /\ last' = Call("send_message", message, user.name, r.reply, r.listed, r.m)
    /\ total_messages_processed' = total_messages_processed + 1
    /\ UNCHANGED <<received, GPIO_AVAILABLE, scheduler_running, sched_pc, current_time,
                   task_idx, tasks_to_remove, now, restarts, alerts, direct_adds, executed,
                   adding, completed, phase, previous_pc, tasks_to_save>>

\* what a file holds; Undecodable(file) stands for bytes that are no JSON
\* document: an empty file or the head of a document
Undecodable(file) == IF file = CHAT_IDS_FILE THEN {-1} ELSE <<[undecodable |-> TRUE]>>

Stored(m, file) ==
    CASE file = CHAT_IDS_FILE -> m.chat_ids_file
      [] file = SCHEDULED_TASKS_FILE -> m.tasks_file
      [] file = PENDING_NOTIFICATIONS_FILE -> m.notif_file

\* set() for the chat registry, [] for the two lists
EmptyValue(file) == IF file = CHAT_IDS_FILE THEN {} ELSE <<>>

\* the attempts of one load_* call from attempt number `attempt` on: json.load
\* raises JSONDecodeError on an undecodable file; every attempt but the last copies
\* the file to a backup (the copy needs a storage that takes writes) and
\* sleeps, the last one returns the empty value
RECURSIVE LoadFrom(_, _, _, _, _)
LoadFrom(attempt, file, m, env, copies) ==
    IF Stored(m, file) # Undecodable(file)
    THEN [data |-> Stored(m, file), attempts |-> attempt + 1, backups |-> copies]
    ELSE IF attempt < load_attempts - 1
         THEN LoadFrom(attempt + 1, file, m, env, copies + IF env.save_ok THEN 1 ELSE 0)
         ELSE [data |-> EmptyValue(file), attempts |-> attempt + 1, backups |-> copies]

Report(load) == [attempts |-> load.attempts, backups |-> load.backups]

load_chat_ids(m, env) == LoadFrom(0, CHAT_IDS_FILE, m, env, 0)

\* faulty variant: the corrupted file is never copied
load_without_backup(m, env) ==
    LoadFrom(0, SCHEDULED_TASKS_FILE, m, [env EXCEPT !.save_ok = FALSE], 0)

load_scheduled_tasks(m, env) == LoadFrom(0, SCHEDULED_TASKS_FILE, m, env, 0)

load_pending_notifications(m, env) == LoadFrom(0, PENDING_NOTIFICATIONS_FILE, m, env, 0)

\* faulty variant: a read that hands the stored list over and empties the file
get_and_clear(m, env) ==
    [m EXCEPT !.pending = load_pending_notifications(m, env).data, !.notif_file = <<>>]

\* get_pending_notifications reloads the file and returns the list
get_pending_notifications(m, env) ==
    LET load == load_pending_notifications(m, env)
    IN  [m EXCEPT !.pending = load.data,
                  !.loads[PENDING_NOTIFICATIONS_FILE] = Report(load)]

\* GET /api/get_notifications
GetNotifications(envs) ==
    /\ phase # "exited"
    /\ UNCHANGED <<adding, completed, phase, previous_pc, tasks_to_save>>
    /\ \E env \in envs :
          LET m == get_pending_notifications(Memory, env)
          IN  /\ pending_notifications' = m.pending
              /\ notifications_file' = m.notif_file
              /\ loads' = m.loads
    /\ last_get' = [valid |-> TRUE, result |-> pending_notifications',
                    again |-> last_get.valid]
    /\ UNCHANGED <<received, GPIO_AVAILABLE, gpio_pins, home_devices, security_system_active,
                   chat_ids, chat_ids_file, scheduled_tasks, tasks_file, events_log,
                   notification_queue, scheduler_running, sched_pc, current_time,
                   task_idx, tasks_to_remove, now, total_messages_processed, restarts,
                   alerts, last, direct_adds, created, available, executed>>

\* a direct add_pending_notification(notification_text, timestamp) call; the
\* timestamp parameter defaults to datetime.now()
AddNotification(timestamps, envs) ==
    /\ phase # "exited"
    /\ UNCHANGED <<adding, completed, phase, previous_pc, tasks_to_save>>
    /\ direct_adds < MaxDirectAdds
    /\ direct_adds' = direct_adds + 1
    /\ \E timestamp \in {now} \cup timestamps, env \in envs :
          LET text == [kind |-> "direct", actor |-> "System", what |-> "note", at |-> now]
              m == add_pending_notification(Memory, text, timestamp, env)
          IN  /\ env.fails = 0
              /\ Commit(m)
              /\ last' = Call("add_pending_notification", "", "", "", <<>>, m)
    /\ UNCHANGED <<received, GPIO_AVAILABLE, scheduler_running, sched_pc, current_time, task_idx,
                   tasks_to_remove, now, total_messages_processed, restarts, alerts,
                   executed>>

\* the notification texts of the direct calls
DirectTexts == {[kind |-> "direct", actor |-> "System", what |-> "note", at |-> 0]}

\* add_pending_notification(notification_text, timestamp) called with the text
\* and the timestamp the caller hands over, while the list is short
AddDirect(texts, timestamps, envs) ==
    /\ phase # "exited"
    /\ Len(pending_notifications) <= MaxDirectAdds
    /\ \E notification_text \in texts, timestamp \in {now} \cup timestamps, env \in envs :
          LET m == add_pending_notification(Memory, notification_text, timestamp, env)
          IN  /\ env.fails = 0
              /\ Commit(m)
              /\ last' = Call("add_pending_notification", "", "", "", <<>>, m)
    /\ UNCHANGED <<adding, completed, phase, previous_pc, tasks_to_save, direct_adds>>
    /\ UNCHANGED <<received, GPIO_AVAILABLE, scheduler_running, sched_pc, current_time, task_idx,
                   tasks_to_remove, now, total_messages_processed, restarts, alerts,
                   executed>>

\* add_pending_notification as a request thread or the scheduler thread runs
\* it next to the other threads, which hold no lock: first the notification
\* is appended to self.pending_notifications
AddBegin(timestamps) ==
    /\ phase # "exited"
    /\ direct_adds < MaxDirectAdds
    /\ direct_adds' = direct_adds + 1
    /\ \E timestamp \in {now} \cup timestamps :
          LET text == [kind |-> "direct", actor |-> "System", what |-> "note", at |-> now]
              notification == [text |-> text, timestamp |-> timestamp,
                               id |-> NotificationId(text, timestamp)]
          IN  /\ pending_notifications' = Append(pending_notifications, notification)
              /\ adding' = Append(adding, notification)
    /\ last_get' = NoGet
    /\ UNCHANGED <<received, GPIO_AVAILABLE, gpio_pins, home_devices, security_system_active,
                   chat_ids, chat_ids_file, scheduled_tasks, tasks_file, notifications_file,
                   events_log, notification_queue, scheduler_running, sched_pc,
                   current_time, task_idx, tasks_to_remove, now, total_messages_processed,
                   restarts, alerts, last, created, available, executed, loads,
                   completed, phase, previous_pc, tasks_to_save>>

\* then the list self.pending_notifications names at that moment is cut to
\* its last 100 entries and written to the file, and the call returns
AddEnd(envs) ==
    /\ phase # "exited"
    /\ \E i \in DOMAIN adding, env \in envs :
          LET kept == LastN(pending_notifications, MaxPending)
          IN  /\ env.fails = 0
              /\ pending_notifications' = kept
              /\ notifications_file' = IF env.save_ok THEN kept ELSE notifications_file
              /\ completed' = Append(completed, adding[i])
              /\ adding' = SubSeq(adding, 1, i - 1) \o SubSeq(adding, i + 1, Len(adding))
    /\ UNCHANGED <<received, GPIO_AVAILABLE, gpio_pins, home_devices, security_system_active,
                   chat_ids, chat_ids_file, scheduled_tasks, tasks_file, events_log,
                   notification_queue, scheduler_running, sched_pc, current_time,
                   task_idx, tasks_to_remove, now, total_messages_processed, restarts,
                   alerts, last, last_get, direct_adds, created, available, executed,
                   loads, phase, previous_pc, tasks_to_save>>

\* one control_gpio_device(device_name, action) call of a handler
ControlDevice(envs) ==
    /\ phase # "exited"
    /\ received < MaxMessages
    /\ received' = received + 1
    /\ \E device_name \in Devices, action \in {"on", "off"}, env \in envs :
          LET m == control_gpio_device(Memory, device_name, action, env)
          IN  /\ Commit(m)
              /\ last' = Call("control_gpio_device", action, device_name, "", <<>>, m)
                          @@ [fails |-> env.fails,
                              attempts |-> GpioOutcome(device_name, action, env.fails).attempts]
    /\ UNCHANGED <<GPIO_AVAILABLE, scheduler_running, sched_pc, current_time, task_idx,
                   tasks_to_remove, now, total_messages_processed, restarts, alerts,
                   direct_adds, executed, adding, completed, phase, previous_pc, tasks_to_save>>

(***************************************************************************)
(* The scheduler thread: _scheduler_loop, one action per step of a tick.   *)
(***************************************************************************)
\* faulty variant: the status is written whatever control_gpio_device returns
execute_and_set(m, task, env) ==
    LET m1 == control_gpio_device(m, task.device, task.action, env)
    IN  [m1 EXCEPT !.home_devices[task.device] = task.action]

\* faulty variant: the status takes the display form of the action, ON or OFF
execute_upper(m, task, env) ==
    LET m1 == control_gpio_device(m, task.device, task.action, env)
    IN  IF LastResult(m1)
        THEN [m1 EXCEPT !.home_devices[task.device] = Upper(task.action)]
        ELSE m1

_execute_scheduled_task(m, task, env) ==
    LET m1 == control_gpio_device(m, task.device, task.action, env)
    IN  IF LastResult(m1)
        THEN LET m2 == IF task.device \in DOMAIN m1.home_devices
                       THEN [m1 EXCEPT !.home_devices[task.device] = task.action]
                       ELSE m1
                 notification_msg ==
                     DeviceNotification(task.user_name, task.device, Upper(task.action))
                 m3 == QueuePut(m2, notification_msg)
             IN  log_event(m3, "scheduled_task_executed",
                           get_device_user_name(task.device) \o " turned "
                           \o Upper(task.action), task.user_name, "None", env)
        ELSE m1

\* faulty variant: the tick does not wait for the end of an alert hold
SchedBeginAnytime ==
    /\ phase # "exited"
    /\ sched_pc \in {"idle", "hold"}
    /\ scheduler_running
    /\ current_time' = now
    /\ task_idx' = 1
    /\ tasks_to_remove' = <<>>
    /\ sched_pc' = "scan"
    /\ UNCHANGED <<received, GPIO_AVAILABLE, gpio_pins, home_devices, security_system_active,
                   chat_ids, chat_ids_file, scheduled_tasks, tasks_file,
                   pending_notifications, notifications_file, events_log,
                   notification_queue, scheduler_running, now,
                   total_messages_processed, restarts, alerts, last, last_get,
                   direct_adds, created, available, executed, adding, completed, phase,
                   previous_pc, tasks_to_save, loads>>

\* while self.scheduler_running: current_time = datetime.now()
SchedBegin ==
    /\ phase # "exited"
    /\ UNCHANGED <<adding, completed, phase, previous_pc, tasks_to_save>>
    /\ UNCHANGED loads
    /\ sched_pc = "idle"
    /\ scheduler_running
    /\ current_time' = now
    /\ task_idx' = 1
    /\ tasks_to_remove' = <<>>
    /\ sched_pc' = "scan"
    /\ UNCHANGED <<received, GPIO_AVAILABLE, gpio_pins, home_devices, security_system_active,
                   chat_ids, chat_ids_file, scheduled_tasks, tasks_file,
                   pending_notifications, notifications_file, events_log,
                   notification_queue, scheduler_running, now,
                   total_messages_processed, restarts, alerts, last, last_get,
                   direct_adds, created, available, executed>>

\* faulty variant: a task is taken one second early
IsDueEarly(task, time) == task.scheduled_time <= time + 1

\* faulty variant: a task is taken only after its second has passed
IsDueLate(task, time) == task.scheduled_time < time

\* task['scheduled_time'] finds the key
Evaluable(task) == "scheduled_time" \in DOMAIN task

\* if task['scheduled_time'] <= current_time
IsDue(task, time) == task.scheduled_time <= time

\* one iteration of `for task in self.scheduled_tasks`
SchedScan(envs) ==
    /\ phase # "exited"
    /\ UNCHANGED <<adding, completed, phase, previous_pc, tasks_to_save>>
    /\ sched_pc = "scan"
    /\ task_idx <= Len(scheduled_tasks)
    /\ Evaluable(scheduled_tasks[task_idx])
    /\ LET task == scheduled_tasks[task_idx]
       IN  IF IsDue(task, current_time)
           THEN \E env \in envs :
                   LET m == _execute_scheduled_task(Memory, task, env)
                   IN  /\ env.save_ok
                       /\ Commit(m)
                       /\ executed' = Append(executed,
                              [task |-> task, at |-> now, tick |-> current_time,
                               success |-> LastResult(m), run |-> restarts,
                               status_before |-> home_devices[task.device],
                               status_after |-> m.home_devices[task.device],
                               emitted |-> m.queue # notification_queue \/ m.added > 0])
                       /\ tasks_to_remove' = Append(tasks_to_remove, task)
           ELSE /\ Commit(Memory)
                /\ UNCHANGED <<executed, tasks_to_remove>>
    /\ task_idx' = task_idx + 1
    /\ UNCHANGED <<received, GPIO_AVAILABLE, scheduler_running, sched_pc, current_time, now,
                   total_messages_processed, restarts, alerts, last, direct_adds>>

\* _execute_scheduled_task after control_gpio_device has returned True: the
\* status is written, the notification queued and the event logged
record_scheduled_task(m, task, env) ==
    LET m2 == IF task.device \in DOMAIN m.home_devices
              THEN [m EXCEPT !.home_devices[task.device] = task.action]
              ELSE m
        m3 == QueuePut(m2, DeviceNotification(task.user_name, task.device, Upper(task.action)))
    IN  log_event(m3, "scheduled_task_executed",
                  get_device_user_name(task.device) \o " turned " \o Upper(task.action),
                  task.user_name, "None", env)

\* _execute_scheduled_task of a due task statement by statement, for the
\* interleavings with the request threads: first control_gpio_device drives
\* the pin, no GPIO call raising
ExecuteBegin(envs) ==
    /\ phase # "exited"
    /\ UNCHANGED <<adding, completed, phase, previous_pc, tasks_to_save>>
    /\ sched_pc = "scan"
    /\ task_idx <= Len(scheduled_tasks)
    /\ Evaluable(scheduled_tasks[task_idx])
    /\ IsDue(scheduled_tasks[task_idx], current_time)
    /\ \E env \in envs :
          /\ env.fails = 0
          /\ Commit(control_gpio_device(Memory, scheduled_tasks[task_idx].device,
                                        scheduled_tasks[task_idx].action, env))
    /\ sched_pc' = "executing"
    /\ UNCHANGED <<received, GPIO_AVAILABLE, scheduler_running, current_time, task_idx,
                   tasks_to_remove, now, total_messages_processed, restarts, alerts, last,
                   direct_adds, executed>>

\* then, success being True, the rest of _execute_scheduled_task and
\* tasks_to_remove.append(task)
ExecuteEnd(envs) ==
    /\ phase # "exited"
    /\ UNCHANGED <<adding, completed, phase, previous_pc, tasks_to_save>>
    /\ sched_pc = "executing"
    /\ \E env \in envs :
          LET task == scheduled_tasks[task_idx]
              m == record_scheduled_task(Memory, task, env)
          IN  /\ env.save_ok
              /\ Commit(m)
              /\ executed' = Append(executed,
                     [task |-> task, at |-> now, tick |-> current_time,
                      success |-> TRUE, run |-> restarts,
                      status_before |-> home_devices[task.device],
                      status_after |-> m.home_devices[task.device],
                      emitted |-> TRUE])
              /\ tasks_to_remove' = Append(tasks_to_remove, task)
    /\ task_idx' = task_idx + 1
    /\ sched_pc' = "scan"
    /\ UNCHANGED <<received, GPIO_AVAILABLE, scheduler_running, current_time, now,
                   total_messages_processed, restarts, alerts, last, direct_adds>>

\* task['scheduled_time'] raises KeyError on a record without the key: the for
\* loop is left, `except Exception` of the loop logs, sleeps 5 s and the loop
\* starts over; tasks_to_remove of this tick is dropped with the tick
SchedKeyError ==
    /\ phase # "exited"
    /\ sched_pc = "scan"
    /\ task_idx <= Len(scheduled_tasks)
    /\ ~Evaluable(scheduled_tasks[task_idx])
    /\ sched_pc' = "idle"
    /\ UNCHANGED <<received, GPIO_AVAILABLE, gpio_pins, home_devices, security_system_active,
                   chat_ids, chat_ids_file, scheduled_tasks, tasks_file,
                   pending_notifications, notifications_file, events_log,
                   notification_queue, scheduler_running, current_time, task_idx,
                   tasks_to_remove, now, total_messages_processed, restarts, alerts,
                   last, last_get, direct_adds, created, available, executed,
                   adding, completed, phase, previous_pc, tasks_to_save, loads>>

\* list.remove(x): the first element equal to x
RECURSIVE RemoveFirst(_, _)
RemoveFirst(seq, x) ==
    IF seq = <<>> THEN <<>>
    ELSE IF Head(seq) = x THEN Tail(seq)
    ELSE <<Head(seq)>> \o RemoveFirst(Tail(seq), x)

\* for task in tasks_to_remove: if task in self.scheduled_tasks: remove it
RECURSIVE RemoveAll(_, _)
RemoveAll(tasks, to_remove) ==
    IF to_remove = <<>> THEN tasks
    ELSE RemoveAll(RemoveFirst(tasks, Head(to_remove)), Tail(to_remove))

\* after the for loop: remove the executed tasks, save when any was removed
SchedRemove(envs) ==
    /\ phase # "exited"
    /\ UNCHANGED <<adding, completed, phase, previous_pc, tasks_to_save>>
    /\ sched_pc = "scan"
    /\ task_idx > Len(scheduled_tasks)
    /\ \E env \in envs :
          LET m1 == [Memory EXCEPT !.scheduled_tasks = RemoveAll(@, tasks_to_remove)]
              m2 == IF tasks_to_remove # <<>> THEN save_scheduled_tasks(m1, env) ELSE m1
          IN  /\ env.fails = 0
              /\ Commit(m2)
    /\ sched_pc' = "security"
    /\ UNCHANGED <<received, GPIO_AVAILABLE, scheduler_running, current_time, task_idx,
                   tasks_to_remove, now, total_messages_processed, restarts, alerts,
                   last, direct_adds, executed>>

\* the removal and save_scheduled_tasks of the tick statement by statement,
\* for the interleavings with the request threads: the executed tasks are
\* removed and save_scheduled_tasks builds tasks_to_save from the list
SaveBegin ==
    /\ phase # "exited"
    /\ sched_pc = "scan"
    /\ task_idx > Len(scheduled_tasks)
    /\ tasks_to_remove # <<>>
    /\ scheduled_tasks' = RemoveAll(scheduled_tasks, tasks_to_remove)
    /\ tasks_to_save' = scheduled_tasks'
    /\ sched_pc' = "saving"
    /\ UNCHANGED <<received, GPIO_AVAILABLE, gpio_pins, home_devices, security_system_active,
                   chat_ids, chat_ids_file, tasks_file,
                   pending_notifications, notifications_file, events_log,
                   notification_queue, scheduler_running, current_time, task_idx,
                   tasks_to_remove, now, total_messages_processed, restarts, alerts,
                   last, last_get, direct_adds, created, available, executed,
                   adding, completed, phase, previous_pc, loads>>

\* then open(SCHEDULED_TASKS_FILE, 'w') and json.dump(tasks_to_save, f), the
\* write succeeding
SaveEnd ==
    /\ phase # "exited"
    /\ sched_pc = "saving"
    /\ tasks_file' = tasks_to_save
    /\ tasks_to_save' = <<>>
    /\ sched_pc' = "security"
    /\ UNCHANGED <<received, GPIO_AVAILABLE, gpio_pins, home_devices, security_system_active,
                   chat_ids, chat_ids_file, scheduled_tasks,
                   pending_notifications, notifications_file, events_log,
                   notification_queue, scheduler_running, current_time, task_idx,
                   tasks_to_remove, now, total_messages_processed, restarts, alerts,
                   last, last_get, direct_adds, created, available, executed,
                   adding, completed, phase, previous_pc, loads>>

AlertNotification ==
    [kind |-> "alert", actor |-> "System",
     what |-> "Suspicious activity detected by Home Security System", at |-> now]

\* if self.security_system_active: self.check_security_system(); a HIGH
\* reading switches the buzzer on and starts the hold
SchedSecurity(envs) ==
    /\ phase # "exited"
    /\ UNCHANGED <<adding, completed, phase, previous_pc, tasks_to_save>>
    /\ sched_pc = "security"
    /\ IF security_system_active /\ GPIO_AVAILABLE
       THEN \E ldr_value \in {"LOW", "HIGH"}, env \in envs :
               /\ env.fails = 0
               /\ IF ldr_value = "HIGH" /\ alerts < MaxAlerts
                  THEN LET m1 == [Memory EXCEPT !.gpio_pins["buzzer"] = "HIGH"]
                           m2 == add_pending_notification(m1, AlertNotification, now, env)
                       IN  /\ Commit(m2)
                           /\ alerts' = alerts + 1
                           /\ sched_pc' = "hold"
                  ELSE /\ Commit(Memory)
                       /\ alerts' = alerts
                       /\ sched_pc' = "idle"
       ELSE /\ Commit(Memory)
            /\ alerts' = alerts
            /\ sched_pc' = "idle"
    /\ UNCHANGED <<received, GPIO_AVAILABLE, scheduler_running, current_time, task_idx,
                   tasks_to_remove, now, total_messages_processed, restarts, last,
                   direct_adds, executed>>

\* check_security_system statement by statement, for the interleavings with
\* the request threads: first the test of self.security_system_active
SecurityCheck ==
    /\ phase # "exited"
    /\ sched_pc = "security"
    /\ sched_pc' = IF security_system_active /\ GPIO_AVAILABLE THEN "reading" ELSE "idle"
    /\ UNCHANGED <<received, GPIO_AVAILABLE, gpio_pins, home_devices, security_system_active,
                   chat_ids, chat_ids_file, scheduled_tasks, tasks_file,
                   pending_notifications, notifications_file, events_log,
                   notification_queue, scheduler_running, current_time, task_idx,
                   tasks_to_remove, now, total_messages_processed, restarts, alerts,
                   last, last_get, direct_adds, created, available, executed,
                   adding, completed, phase, previous_pc, tasks_to_save, loads>>

\* then GPIO.input(ldr_sensor) and, on HIGH, the buzzer and the notification
SecurityAlert(envs) ==
    /\ phase # "exited"
    /\ UNCHANGED <<adding, completed, phase, previous_pc, tasks_to_save>>
    /\ sched_pc = "reading"
    /\ \E ldr_value \in {"LOW", "HIGH"}, env \in envs :
          /\ env.fails = 0
          /\ IF ldr_value = "HIGH" /\ alerts < MaxAlerts
             THEN /\ Commit(add_pending_notification(
                              [Memory EXCEPT !.gpio_pins["buzzer"] = "HIGH"],
                              AlertNotification, now, env))
                  /\ alerts' = alerts + 1
                  /\ sched_pc' = "hold"
             ELSE /\ Commit(Memory)
                  /\ alerts' = alerts
                  /\ sched_pc' = "idle"
    /\ UNCHANGED <<received, GPIO_AVAILABLE, scheduler_running, current_time, task_idx,
                   tasks_to_remove, now, total_messages_processed, restarts, last,
                   direct_adds, executed>>

\* the end of time.sleep(5): GPIO.output(buzzer, LOW)
SchedHoldEnd ==
    /\ phase # "exited"
    /\ UNCHANGED <<adding, completed, phase, previous_pc, tasks_to_save>>
    /\ UNCHANGED loads
    /\ sched_pc = "hold"
    /\ gpio_pins' = [gpio_pins EXCEPT !["buzzer"] = "LOW"]
    /\ sched_pc' = "idle"
    /\ UNCHANGED <<received, GPIO_AVAILABLE, home_devices, security_system_active,
                   chat_ids, chat_ids_file, scheduled_tasks, tasks_file,
                   pending_notifications, notifications_file, events_log,
                   notification_queue, scheduler_running, current_time, task_idx,
                   tasks_to_remove, now, total_messages_processed, restarts, alerts,
                   last, last_get, direct_adds, created, available, executed>>

\* a call between GPIO.output(buzzer, HIGH) and the end of the hold raises
\* (the console output of add_console_line / update_status_line, or
\* GPIO.output(buzzer, LOW) itself): `except Exception` logs it and
\* check_security_system returns; nothing writes the buzzer pin
SchedHoldFault(envs) ==
    /\ phase # "exited"
    /\ sched_pc = "hold"
    /\ \E env \in envs : env.fails > 0
    /\ sched_pc' = "idle"
    /\ UNCHANGED <<received, GPIO_AVAILABLE, gpio_pins, home_devices, security_system_active,
                   chat_ids, chat_ids_file, scheduled_tasks, tasks_file,
                   pending_notifications, notifications_file, events_log,
                   notification_queue, scheduler_running, current_time, task_idx,
                   tasks_to_remove, now, total_messages_processed, restarts, alerts,
                   last, last_get, direct_adds, created, available, executed,
                   adding, completed, phase, previous_pc, tasks_to_save, loads>>

\* a call of the tick raises between `current_time = datetime.now()` and the
\* sleep: `except Exception` at the end of the loop body logs the error and
\* calls update_status_line, which redraws the console. When the redraw
\* works the thread sleeps 5 s and goes back to the head of the loop; when the
\* fault is the console output itself the call raises again inside the
\* except clause and _scheduler_loop ends with scheduler_running still set
SchedTickFault(consoles) ==
    /\ phase # "exited"
    /\ sched_pc \in {"scan", "security"}
    /\ Len(executed) <= MaxFaults
    /\ \E console_ok \in consoles : sched_pc' = IF console_ok THEN "idle" ELSE "ended"
    /\ UNCHANGED <<received, GPIO_AVAILABLE, gpio_pins, home_devices, security_system_active,
                   chat_ids, chat_ids_file, scheduled_tasks, tasks_file,
                   pending_notifications, notifications_file, events_log,
                   notification_queue, scheduler_running, current_time, task_idx,
                   tasks_to_remove, now, total_messages_processed, restarts, alerts,
                   last, last_get, direct_adds, created, available, executed,
                   adding, completed, phase, previous_pc, tasks_to_save, loads>>

\* process_notifications: one get_nowait() of the delivery thread
DrainQueue ==
    /\ phase # "exited"
    /\ UNCHANGED <<adding, completed, phase, previous_pc, tasks_to_save>>
    /\ UNCHANGED loads
    /\ notification_queue # <<>>
    /\ notification_queue' = Tail(notification_queue)
    /\ UNCHANGED <<received, GPIO_AVAILABLE, gpio_pins, home_devices, security_system_active,
                   chat_ids, chat_ids_file, scheduled_tasks, tasks_file,
                   pending_notifications, notifications_file, events_log,
                   scheduler_running, sched_pc, current_time, task_idx,
                   tasks_to_remove, now, total_messages_processed, restarts, alerts,
                   last, last_get, direct_adds, created, available, executed>>

\* the wall clock
Advance ==
    /\ phase # "exited"
    /\ UNCHANGED <<adding, completed, phase, previous_pc, tasks_to_save>>
    /\ UNCHANGED loads
    /\ now < MaxTime
    /\ now' = now + 1
    /\ UNCHANGED <<received, GPIO_AVAILABLE, gpio_pins, home_devices, security_system_active,
                   chat_ids, chat_ids_file, scheduled_tasks, tasks_file,
                   pending_notifications, notifications_file, events_log,
                   notification_queue, scheduler_running, sched_pc, current_time,
                   task_idx, tasks_to_remove, total_messages_processed, restarts,
                   alerts, last, last_get, direct_adds, created, available, executed>>

(***************************************************************************)
(* Process start: module initialisation and ToggleTalkFlaskServer.__init__ *)
(***************************************************************************)
\* main() leaves waitress.serve on KeyboardInterrupt or an error and calls
\* stop_scheduler: the flag is cleared and the thread is joined
StopBegin ==
    /\ phase = "serving"
    /\ phase' = "joining"
    /\ UNCHANGED <<previous_pc, tasks_to_save>>
    /\ scheduler_running' = FALSE
    /\ UNCHANGED <<received, GPIO_AVAILABLE, gpio_pins, home_devices, security_system_active,
                   chat_ids, chat_ids_file, scheduled_tasks, tasks_file,
                   pending_notifications, notifications_file, events_log,
                   notification_queue, sched_pc, current_time, task_idx, tasks_to_remove,
                   now, total_messages_processed, restarts, alerts, last, last_get,
                   direct_adds, created, available, executed, loads, adding,
                   completed>>

\* while self.scheduler_running: the scheduler thread finds the flag cleared
\* and ends
SchedExit ==
    /\ phase # "exited"
    /\ sched_pc = "idle"
    /\ ~scheduler_running
    /\ sched_pc' = "done"
    /\ UNCHANGED <<received, GPIO_AVAILABLE, gpio_pins, home_devices, security_system_active,
                   chat_ids, chat_ids_file, scheduled_tasks, tasks_file,
                   pending_notifications, notifications_file, events_log,
                   notification_queue, scheduler_running, current_time, task_idx,
                   tasks_to_remove, now, total_messages_processed, restarts, alerts, last,
                   last_get, direct_adds, created, available, executed, loads,
                   adding, completed, phase, previous_pc, tasks_to_save>>

\* join(timeout=5) returns: the thread has ended, or it is in the 5 s buzzer
\* hold, which the 2 s sleep of the loop follows, and the timeout passes
\* first. A thread anywhere else in its loop is waited for
StopReturn ==
    /\ phase = "joining"
    /\ sched_pc \in {"done", "hold"}
    /\ phase' = "stopped"
    /\ UNCHANGED <<previous_pc, tasks_to_save>>
    /\ UNCHANGED <<received, GPIO_AVAILABLE, gpio_pins, home_devices, security_system_active,
                   chat_ids, chat_ids_file, scheduled_tasks, tasks_file,
                   pending_notifications, notifications_file, events_log,
                   notification_queue, scheduler_running, sched_pc, current_time,
                   task_idx, tasks_to_remove, now, total_messages_processed, restarts,
                   alerts, last, last_get, direct_adds, created, available, executed,
                   loads, adding, completed>>

\* cleanup_gpio has run and main() returns: the daemon threads end with the
\* process
Exit ==
    /\ phase = "stopped"
    /\ phase' = "exited"
    /\ UNCHANGED <<previous_pc, tasks_to_save>>
    /\ UNCHANGED <<received, GPIO_AVAILABLE, gpio_pins, home_devices, security_system_active,
                   chat_ids, chat_ids_file, scheduled_tasks, tasks_file,
                   pending_notifications, notifications_file, events_log,
                   notification_queue, scheduler_running, sched_pc, current_time,
                   task_idx, tasks_to_remove, now, total_messages_processed, restarts,
                   alerts, last, last_get, direct_adds, created, available, executed,
                   loads, adding, completed>>

\* start_scheduler called after stop_scheduler has returned: the flag is
\* clear, so it is set and a new thread is started, which becomes
\* self.scheduler_thread. The thread the join gave up on is still alive
StartScheduler ==
    /\ phase = "stopped"
    /\ sched_pc = "done" \/ previous_pc \in {"none", "done"}
    /\ phase' = "serving"
    /\ IF ~scheduler_running
       THEN /\ scheduler_running' = TRUE
            /\ sched_pc' = "idle"
            /\ previous_pc' = CASE sched_pc = "done" -> previous_pc
                                [] sched_pc = "hold" -> "hold"
                                [] OTHER -> "head"
       ELSE UNCHANGED <<scheduler_running, sched_pc, previous_pc>>
    /\ UNCHANGED tasks_to_save
    /\ UNCHANGED <<received, GPIO_AVAILABLE, gpio_pins, home_devices, security_system_active,
                   chat_ids, chat_ids_file, scheduled_tasks, tasks_file,
                   pending_notifications, notifications_file, events_log,
                   notification_queue, current_time, task_idx, tasks_to_remove, now,
                   total_messages_processed, restarts, alerts, last, last_get,
                   direct_adds, created, available, executed, loads, adding,
                   completed>>

\* the earlier thread reaches the end of time.sleep(5): GPIO.output(buzzer,
\* LOW), then the rest of its tick and time.sleep(2)
PreviousHoldEnd ==
    /\ phase # "exited"
    /\ previous_pc = "hold"
    /\ gpio_pins' = [gpio_pins EXCEPT !["buzzer"] = "LOW"]
    /\ previous_pc' = "head"
    /\ UNCHANGED tasks_to_save
    /\ UNCHANGED <<received, GPIO_AVAILABLE, home_devices, security_system_active,
                   chat_ids, chat_ids_file, scheduled_tasks, tasks_file,
                   pending_notifications, notifications_file, events_log,
                   notification_queue, scheduler_running, sched_pc, current_time,
                   task_idx, tasks_to_remove, now, total_messages_processed, restarts,
                   alerts, last, last_get, direct_adds, created, available, executed,
                   loads, adding, completed, phase>>

\* `while self.scheduler_running` as the earlier thread evaluates it: it
\* enters the loop body for another tick, or it ends
PreviousTest ==
    /\ phase # "exited"
    /\ previous_pc = "head"
    /\ previous_pc' = IF scheduler_running THEN "ticking" ELSE "done"
    /\ UNCHANGED tasks_to_save
    /\ UNCHANGED <<received, GPIO_AVAILABLE, gpio_pins, home_devices, security_system_active,
                   chat_ids, chat_ids_file, scheduled_tasks, tasks_file,
                   pending_notifications, notifications_file, events_log,
                   notification_queue, scheduler_running, sched_pc, current_time,
                   task_idx, tasks_to_remove, now, total_messages_processed, restarts,
                   alerts, last, last_get, direct_adds, created, available, executed,
                   loads, adding, completed, phase>>

InitialPins == [p \in OutputPins |-> IF p = "laser_module" THEN "LOW" ELSE "HIGH"]

InitialDevices == [d \in Devices |-> "off"]

NoCall ==
    [op |-> "none", message |-> "", user_name |-> "", reply |-> "", listed |-> <<>>,
     before |-> InitialDevices, after |-> InitialDevices, added |-> 0,
     results |-> <<>>, at |-> 0, len_before |-> 0, head_oldest |-> TRUE,
     new_tasks |-> <<>>, persisted |-> TRUE]

\* ToggleTalkAPIServer.__init__ and main() of a new process over the files m
\* describes: the three loads, devices off, the scheduler thread started
Startup(m, env) ==
    LET chats == load_chat_ids(m, env)
        tasks == load_scheduled_tasks(m, env)
        notes == load_pending_notifications(m, env)
    IN  /\ gpio_pins' = InitialPins
        /\ home_devices' = InitialDevices
        /\ security_system_active' = FALSE
        /\ chat_ids' = chats.data
        /\ scheduled_tasks' = tasks.data
        /\ available' = tasks.data
        /\ pending_notifications' = notes.data
        /\ loads' = [file \in FileNames |->
                        CASE file = CHAT_IDS_FILE -> Report(chats)
                          [] file = SCHEDULED_TASKS_FILE -> Report(tasks)
                          [] file = PENDING_NOTIFICATIONS_FILE -> Report(notes)]
        /\ chat_ids_file' = m.chat_ids_file
        /\ tasks_file' = m.tasks_file
        /\ notifications_file' = m.notif_file
        /\ notification_queue' = <<>>
        /\ scheduler_running' = TRUE
        /\ sched_pc' = "idle"
        /\ current_time' = now
        /\ task_idx' = 1
        /\ tasks_to_remove' = <<>>
        /\ total_messages_processed' = 0
        /\ last' = NoCall
        /\ adding' = <<>>
        /\ phase' = "serving"
        /\ previous_pc' = "none"
        /\ tasks_to_save' = <<>>
        /\ UNCHANGED <<GPIO_AVAILABLE, events_log, now, alerts, last_get, created, executed, completed>>

\* the process is stopped between two steps and started again
Restart(envs) ==
    /\ restarts < MaxRestarts
    /\ restarts' = restarts + 1
    /\ \E env \in envs : Startup(Memory, env)
    /\ UNCHANGED <<received, direct_adds>>

\* the process is started over a scheduled_tasks.json that was written by
\* something else than this run's save_scheduled_tasks; load_scheduled_tasks
\* converts scheduled_time where a record has one and keeps every record
StartOver(files, envs) ==
    /\ restarts < MaxRestarts
    /\ restarts' = restarts + 1
    /\ \E file \in files, env \in envs :
          Startup([Memory EXCEPT !.tasks_file = file], env)
    /\ UNCHANGED <<received, direct_adds>>

\* a save_* call has the file open for writing: open(FILE, 'w') has cut it
\* to length zero and json.dump has written none or part of the document
Saving(file) ==
    CASE file = CHAT_IDS_FILE ->
             received < MaxMessages /\ \E user \in Users : user.id \notin chat_ids
      [] file = SCHEDULED_TASKS_FILE ->
             sched_pc = "scan" /\ task_idx > Len(scheduled_tasks) /\ tasks_to_remove # <<>>
      [] file = PENDING_NOTIFICATIONS_FILE -> direct_adds < MaxDirectAdds

Tear(m, file) ==
    CASE file = CHAT_IDS_FILE -> [m EXCEPT !.chat_ids_file = Undecodable(file)]
      [] file = SCHEDULED_TASKS_FILE -> [m EXCEPT !.tasks_file = Undecodable(file)]
      [] file = PENDING_NOTIFICATIONS_FILE -> [m EXCEPT !.notif_file = Undecodable(file)]

\* the process is killed inside that save and started again
KillDuringSave(envs) ==
    /\ phase # "exited"
    /\ restarts < MaxRestarts
    /\ restarts' = restarts + 1
    /\ \E file \in FileNames, env \in envs :
          /\ Saving(file)
          /\ Startup(Tear(Memory, file), env)
          /\ received' = IF file = CHAT_IDS_FILE THEN received + 1 ELSE received
          /\ direct_adds' = IF file = PENDING_NOTIFICATIONS_FILE
                            THEN direct_adds + 1 ELSE direct_adds

\* the notifications a previous run left in pending_notifications.json; the
\* clock was set back once while it ran
StoredNotification(i) ==
    LET timestamp == IF i <= 2 THEN -1 ELSE i - Backlog - 2
        text == [kind |-> "stored", actor |-> "System", what |-> "note", at |-> timestamp]
    IN  [text |-> text, timestamp |-> timestamp, id |-> NotificationId(text, timestamp)]

StoredNotifications == [i \in 1..Backlog |-> StoredNotification(i)]

\* the lines earlier runs left in events.log, in file order; the clock was set
\* back once while they ran
StoredEvent(i) ==
    [timestamp |-> IF i <= 3 THEN -2 ELSE i - LogBacklog - 4,
     event_type |-> "device_control", message |-> "Light turned ON",
     user_name |-> "Alice", user_id |-> "None"]

StoredEvents(n) == [i \in 1..n |-> StoredEvent(i)]

\* the relay of a device that is on is driven LOW
PinsFor(devices) ==
    [pin \in DOMAIN InitialPins |->
        IF pin \in Devices /\ devices[pin] = "on" THEN "LOW" ELSE InitialPins[pin]]

\* a server that runs over the stored notifications with its devices switched
\* as in `devices` by earlier commands
InitWith(stored, devices, log) ==
    /\ GPIO_AVAILABLE \in BOOLEAN
    /\ gpio_pins = IF GPIO_AVAILABLE THEN PinsFor(devices) ELSE InitialPins
    /\ home_devices = devices
    /\ security_system_active = FALSE
    /\ chat_ids_file = {}
    /\ tasks_file = <<>>
    /\ notifications_file = stored
    /\ events_log = log
    /\ chat_ids = chat_ids_file
    /\ scheduled_tasks = tasks_file
    /\ pending_notifications = notifications_file
    /\ notification_queue = <<>>
    /\ scheduler_running = TRUE
    /\ sched_pc = "idle"
    /\ current_time = 0
    /\ task_idx = 1
    /\ tasks_to_remove = <<>>
    /\ now = 0
    /\ total_messages_processed = 0
    /\ restarts = 0
    /\ alerts = 0
    /\ last = NoCall
    /\ last_get = NoGet
    /\ direct_adds = 0
    /\ received = 0
    /\ created = <<>>
    /\ available = <<>>
    /\ executed = <<>>
    /\ loads = [file \in FileNames |-> [attempts |-> 1, backups |-> 0]]
    /\ adding = <<>>
    /\ completed = <<>>
    /\ phase = "serving"
    /\ previous_pc = "none"
    /\ tasks_to_save = <<>>

InitFrom(stored, devices) == InitWith(stored, devices, <<>>)

\* the state after construction, over the pending_notifications.json found
InitOver(stored) == InitFrom(stored, InitialDevices)

Init == InitOver(<<>>)

ExplicitTimestamps == {-1}

\* one run of the process
NextRun(messages, envs) ==
    \/ SendMessage(messages, envs)
    \/ SchedBegin
    \/ SchedScan(envs)
    \/ SchedRemove(envs)
    \/ SchedSecurity(envs)
    \/ SchedHoldEnd
    \/ DrainQueue
    \/ Advance

\* every command, the scheduler thread, the delivery thread, and restarts
Next == NextRun(Messages, Envs) \/ Restart(Envs)

Spec == Init /\ [][Next]_vars

(***************************************************************************)
(* Focused specifications: the same actions over smaller input alphabets.  *)
(***************************************************************************)
\* the storage never fails a write
SavingEnvs == {env \in Envs : env.save_ok}

SpecSaved == Init /\ [][NextRun(Messages, SavingEnvs) \/ Restart(SavingEnvs)]_vars

NotifyMessages == {"Turn on the light", "initialize security system", "hello"}

\* the API calls that reach the pending-notification collection, and restarts
NextNotify ==
    \/ SendMessage(NotifyMessages, Envs)
    \/ GetNotifications(Envs)
    \/ AddNotification(ExplicitTimestamps, Envs)
    \/ Restart(Envs)

\* the server starts over a pending_notifications.json one short of the cap
SpecBacklog == InitOver(StoredNotifications) /\ [][NextNotify]_vars

SchedMessages ==
    {"schedule turn on light in 2 seconds", "schedule switch off light in 1 second",
     "Turn on the light", "initialize security system"}

\* the scheduler over a storage that takes every write
NextSched == NextRun(SchedMessages, SavingEnvs) \/ Restart(SavingEnvs)

SpecSched == Init /\ [][NextSched]_vars

\* the scheduler thread keeps running: `while self.scheduler_running` with
\* bounded sleeps, and no restart of the process
FairSched ==
    /\ Init
    /\ [][NextRun(SchedMessages, SavingEnvs)]_vars
    /\ WF_vars(SchedBegin)
    /\ WF_vars(SchedScan(SavingEnvs))
    /\ WF_vars(SchedRemove(SavingEnvs))
    /\ WF_vars(SchedSecurity(SavingEnvs))
    /\ WF_vars(SchedHoldEnd)

\* commands and the scheduler, with the process killed
\* inside a save or restarted between two steps
CrashMessages == {"schedule switch off light in 1 second"}

NextCrash ==
    \/ SendMessage(CrashMessages, SavingEnvs)
    \/ SchedBegin
    \/ SchedScan(SavingEnvs)
    \/ SchedRemove(SavingEnvs)
    \/ SchedSecurity(SavingEnvs)
    \/ Advance
    \/ KillDuringSave(SavingEnvs)
    \/ Restart(SavingEnvs)

SpecCrash == Init /\ [][NextCrash]_vars

\* the devices stand as earlier commands left them; commands that name the
\* washing machine arrive
DeviceStates == [Devices -> {"on", "off"}]

SpecWash ==
    /\ \E devices \in DeviceStates : InitFrom(<<>>, devices)
    /\ [][SendMessage(WashMessages, Envs)]_vars

\* request threads that add and read notifications side by side; fewer than
\* MaxPending notifications are ever added, so the cap evicts none
NextThreads ==
    \/ AddBegin({})
    \/ AddEnd(SavingEnvs)
    \/ GetNotifications(SavingEnvs)
    \/ SendMessage(NotifyMessages, SavingEnvs)
    \/ Advance

SpecThreads == Init /\ [][NextThreads]_vars

\* the server is shut down while commands, the scheduler thread and the
\* notification thread run
NextStop ==
    \/ NextRun(SchedMessages, SavingEnvs)
    \/ StopBegin
    \/ SchedExit
    \/ StopReturn
    \/ Exit

SpecStop == Init /\ [][NextStop]_vars

\* the server starts over an events.log of up to LogBacklog lines and is
\* asked for the log details
SpecLog ==
    /\ \E n \in 0..LogBacklog : InitWith(<<>>, InitialDevices, StoredEvents(n))
    /\ [][SendMessage(LogMessages, Envs)]_vars

\* control_gpio_device is called on every device, in every state of the
\* devices, with GPIO.output raising on none to all of the attempts
SpecPin ==
    /\ \E devices \in DeviceStates : InitFrom(<<>>, devices)
    /\ [][ControlDevice(Envs)]_vars

\* a command that raises inside generate_response, and commands after it
AfterMessages == {"Turn on the light", "hello"}

SpecFault ==
    /\ \E devices \in DeviceStates : InitFrom(<<>>, devices)
    /\ [][SendFaulty(Envs) \/ SendMessage(AfterMessages, Envs)]_vars

\* commands that save a collection or append to the events log
PersistMessages ==
    {"Turn on the light", "schedule switch off light in 1 second",
     "initialize security system", "hello"}

\* commands over a storage that may refuse every write
SpecPersist ==
    /\ \E devices \in DeviceStates : InitFrom(<<>>, devices)
    /\ [][SendMessage(PersistMessages, WriteEnvs)]_vars

\* scheduling texts that also carry device, action and security keywords
SpecKeyword ==
    /\ \E devices \in DeviceStates : InitFrom(<<>>, devices)
    /\ [][SendMessage(KeywordMessages, Envs)]_vars

\* security commands one after another, on hardware and in simulation
SpecSecurity == Init /\ [][SendSecurity(SecurityMessages, Envs)]_vars

\* the security monitor of the scheduler thread, with faults during the alert
AlarmMessages == {"initialize security system", "schedule switch off light in 1 second"}

NextAlarm ==
    \/ SendMessage(AlarmMessages, SavingEnvs)
    \/ SchedBegin
    \/ SchedScan(SavingEnvs)
    \/ SchedRemove(SavingEnvs)
    \/ SchedSecurity(SavingEnvs)
    \/ SchedHoldEnd
    \/ SchedHoldFault(SavingEnvs)
    \/ DrainQueue
    \/ Advance

\* the scheduler thread keeps running; a fault is never forced to happen
FairAlarm ==
    /\ Init
    /\ [][NextAlarm]_vars
    /\ WF_vars(SchedBegin)
    /\ WF_vars(SchedScan(SavingEnvs))
    /\ WF_vars(SchedRemove(SavingEnvs))
    /\ WF_vars(SchedSecurity(SavingEnvs))
    /\ WF_vars(SchedHoldEnd)

\* a scheduled task and security commands, with the scheduler thread
HoldMessages == {"schedule switch off light in 1 second"}

\* every write and every pin call succeeds
QuietEnvs == {env \in SavingEnvs : env.fails = 0}

ArmMessages == {"initialize security system", "terminate security system"}

NextHold ==
    \/ SendMessage(HoldMessages, QuietEnvs)
    \/ SendSecurity(ArmMessages, QuietEnvs)
    \/ SchedBegin
    \/ SchedScan(QuietEnvs)
    \/ SchedRemove(QuietEnvs)
    \/ SchedSecurity(QuietEnvs)
    \/ SchedHoldEnd
    \/ Advance

SpecHold == Init /\ [][NextHold]_vars

\* security commands of the request threads between the statements of the
\* scheduler thread's security check
NextRace ==
    \/ SendMessage(HoldMessages, QuietEnvs)
    \/ SendSecurity(ArmMessages, QuietEnvs)
    \/ SchedBegin
    \/ SchedScan(QuietEnvs)
    \/ SchedRemove(QuietEnvs)
    \/ SecurityCheck
    \/ SecurityAlert(QuietEnvs)
    \/ SchedHoldEnd
    \/ Advance

SpecRace == Init /\ [][NextRace]_vars

\* direct adds of one text, reads of the collection and messages
NextDirect ==
    \/ AddDirect(DirectTexts, ExplicitTimestamps, Envs)
    \/ GetNotifications(Envs)
    \/ SendMessage(NotifyMessages, Envs)
    \/ Advance

SpecDirect == Init /\ [][NextDirect]_vars

\* the scheduler thread with faults in the tick and in the security check
NextTick == NextAlarm \/ SchedTickFault(BOOLEAN)

\* the scheduler thread takes its next step whenever it has one; a fault is
\* never forced to happen
FairTick ==
    /\ Init
    /\ [][NextTick]_vars
    /\ WF_vars(SchedBegin)
    /\ WF_vars(SchedScan(SavingEnvs))
    /\ WF_vars(SchedRemove(SavingEnvs))
    /\ WF_vars(SchedSecurity(SavingEnvs))
    /\ WF_vars(SchedHoldEnd)

\* the same, every fault of the tick being one the console survives
FairTransient ==
    /\ Init
    /\ [][NextAlarm \/ SchedTickFault({TRUE})]_vars
    /\ WF_vars(SchedBegin)
    /\ WF_vars(SchedScan(SavingEnvs))
    /\ WF_vars(SchedRemove(SavingEnvs))
    /\ WF_vars(SchedSecurity(SavingEnvs))
    /\ WF_vars(SchedHoldEnd)

\* a record without scheduled_time, and a task that is due from the start
NoTimeTask == [device |-> "ac", action |-> "on", user_name |-> "Alice"]

DueTask == [device |-> "light", action |-> "on", scheduled_time |-> 0, user_name |-> "Alice"]

TaskFiles == {<<NoTimeTask, DueTask>>}

\* the scheduler thread over a stored task list with such a record
NextStored(files) ==
    \/ StartOver(files, QuietEnvs)
    \/ SendMessage(HoldMessages, QuietEnvs)
    \/ SchedBegin
    \/ SchedScan(QuietEnvs)
    \/ SchedKeyError
    \/ SchedRemove(QuietEnvs)
    \/ SchedSecurity(QuietEnvs)
    \/ Advance

FairStored ==
    /\ Init
    /\ [][NextStored(TaskFiles)]_vars
    /\ WF_vars(SchedBegin)
    /\ WF_vars(SchedScan(QuietEnvs))
    /\ WF_vars(SchedKeyError)
    /\ WF_vars(SchedRemove(QuietEnvs))
    /\ WF_vars(SchedSecurity(QuietEnvs))

\* the same over a stored list in which every record has its scheduled_time
FairSound ==
    /\ Init
    /\ [][NextStored({<<DueTask>>})]_vars
    /\ WF_vars(SchedBegin)
    /\ WF_vars(SchedScan(QuietEnvs))
    /\ WF_vars(SchedKeyError)
    /\ WF_vars(SchedRemove(QuietEnvs))
    /\ WF_vars(SchedSecurity(QuietEnvs))

\* stop_scheduler and start_scheduler called one after the other while the
\* scheduler thread and the security monitor run
NextStart ==
    \/ SendMessage(HoldMessages, QuietEnvs)
    \/ SendSecurity(ArmMessages, QuietEnvs)
    \/ SchedBegin
    \/ SchedScan(QuietEnvs)
    \/ SchedRemove(QuietEnvs)
    \/ SchedSecurity(QuietEnvs)
    \/ SchedHoldEnd
    \/ StopBegin
    \/ SchedExit
    \/ StopReturn
    \/ StartScheduler
    \/ PreviousHoldEnd
    \/ PreviousTest
    \/ Advance

SpecStart == Init /\ [][NextStart]_vars

SwitchMessages == {"Turn on the light", "turn off the light"}

\* on/off commands next to the execution of a stored task for the same
\* device, every GPIO call and every save succeeding
NextSwitch ==
    \/ StartOver({<<DueTask>>}, QuietEnvs)
    \/ SendMessage(SwitchMessages, QuietEnvs)
    \/ SchedBegin
    \/ SchedScan(QuietEnvs)
    \/ ExecuteBegin(QuietEnvs)
    \/ ExecuteEnd(QuietEnvs)
    \/ SchedRemove(QuietEnvs)
    \/ SchedSecurity(QuietEnvs)
    \/ Advance

SpecSwitch == Init /\ [][NextSwitch]_vars

\* a scheduling command next to the tick that removes a stored task and
\* saves, every write succeeding
NextSave ==
    \/ StartOver({<<DueTask>>}, QuietEnvs)
    \/ SendMessage(HoldMessages, QuietEnvs)
    \/ SchedBegin
    \/ SchedScan(QuietEnvs)
    \/ SchedRemove(QuietEnvs)
    \/ SaveBegin
    \/ SaveEnd
    \/ SchedSecurity(QuietEnvs)
    \/ Advance

SpecSave == Init /\ [][NextSave]_vars

(***************************************************************************)
(* Properties.                                                             *)
(***************************************************************************)
Count(seq, x) == Cardinality({i \in DOMAIN seq : seq[i] = x})

\* the last call was an on/off command that process_home_automation routed to
\* one of the three devices
OnOffCommand ==
    /\ last.op = "send_message"
    /\ Analyzed[last.message].branch \in Devices
    /\ Analyzed[last.message].action # "None"

IsErrorReply(reply) == StartsWith(reply, "Error turning ")

\* C1: for an on/off command on light, ac or washing_machine the status
\* becomes the requested value exactly when actuation reports success; when all
\* 3 attempts fail the reply is an error and the status is what it was before
\* the call.
C1_StatusFollowsActuation ==
    OnOffCommand =>
        LET device == Analyzed[last.message].branch
            action == Analyzed[last.message].action
        IN  /\ Len(last.results) = 1
            /\ last.results[1] =>
                  /\ last.after[device] = action
                  /\ ~IsErrorReply(last.reply)
            /\ ~last.results[1] =>
                  /\ IsErrorReply(last.reply)
                  /\ last.after[device] = last.before[device]

\* C2: one on/off command for a known device adds exactly one pending
\* notification when actuation succeeds and none when it fails.
C2_OneNotificationOnSuccess ==
    OnOffCommand =>
        /\ last.results[1] => last.added = 1
        /\ ~last.results[1] => last.added = 0

\* C3: the pending-notification collection, in memory and stored, never holds
\* more than 100 entries.
C3_AtMostHundred ==
    /\ Len(pending_notifications) <= MaxPending
    /\ Len(notifications_file) <= MaxPending

\* an add found the collection full
C3_Witness ==
    /\ last.op \in {"send_message", "add_pending_notification"}
    /\ last.added >= 1
    /\ last.len_before = MaxPending
    /\ Len(pending_notifications) = MaxPending

\* add_pending_notification calls of the step: those of a command, one for a
\* direct add, one for a security alert
AddsOfStep ==
    IF received' # received THEN last'.added
    ELSE IF direct_adds' # direct_adds \/ alerts' # alerts THEN 1
    ELSE 0

\* C4: when the collection holds 100 entries, each added entry removes
\* exactly the entry inserted earliest, whatever the timestamps say; the
\* others keep their insertion order and the new entries follow them.
C4_EvictsEarliestInserted ==
    [][(Len(pending_notifications) = MaxPending /\ AddsOfStep >= 1) =>
          /\ Len(pending_notifications') = MaxPending
          /\ SubSeq(pending_notifications', 1, MaxPending - AddsOfStep)
                = SubSeq(pending_notifications, AddsOfStep + 1, MaxPending)
          /\ \A i \in (MaxPending - AddsOfStep + 1)..MaxPending :
                /\ pending_notifications'[i].text.kind # "stored"
                /\ pending_notifications'[i].text.at = now]_vars

\* one entry was added to a full collection whose earliest inserted entry does
\* not carry the smallest timestamp
C4_Witness ==
    /\ last.op = "add_pending_notification"
    /\ last.added = 1
    /\ last.len_before = MaxPending
    /\ ~last.head_oldest
    /\ Len(pending_notifications) = MaxPending

\* C5: get_pending_notifications removes and alters no notification: the list
\* it returned is the stored list until the next add, and a call that follows
\* another with no add between them returns the same list.
C5_ReadIsNonDestructive ==
    /\ [](last_get.valid =>
            /\ last_get.result = notifications_file
            /\ pending_notifications = notifications_file)
    /\ [][(last_get.valid /\ last_get'.valid) =>
            last_get'.result = last_get.result]_vars

\* two calls in a row returned a list that is not empty
C5_Witness ==
    /\ last_get.valid
    /\ last_get.again
    /\ Len(last_get.result) > 0

\* what the scheduling commands of Messages name: device, action, seconds
SchedulingCommands ==
    [message \in {"schedule light on in 5 seconds",
                  "schedule turn on light in 2 seconds",
                  "schedule switch off light in 1 second",
                  "timer switch off washing machine in 1 minute"} |->
        CASE message = "schedule light on in 5 seconds" ->
                [device |-> "light", action |-> "on", seconds |-> 5]
          [] message = "schedule turn on light in 2 seconds" ->
                [device |-> "light", action |-> "on", seconds |-> 2]
          [] message = "schedule switch off light in 1 second" ->
                [device |-> "light", action |-> "off", seconds |-> 1]
          [] OTHER ->
                [device |-> "washing_machine", action |-> "off", seconds |-> 60]]

\* C6: a scheduling command that names a known device, an on/off action and a
\* duration "in N unit" creates exactly one pending task for that device and
\* action, due at now + N units, and persists the pending set.
C6_SchedulingCreatesOneTask ==
    (last.op = "send_message" /\ last.message \in DOMAIN SchedulingCommands) =>
        LET named == SchedulingCommands[last.message]
        IN  /\ last.new_tasks =
                  <<[device |-> named.device, action |-> named.action,
                     scheduled_time |-> last.at + named.seconds,
                     user_name |-> last.user_name]>>
            /\ last.persisted

\* the tasks the scheduling commands of SchedMessages can create
CreatableTasks ==
    {[device |-> Analyzed[message].loose, action |-> Analyzed[message].action,
      scheduled_time |-> at + Duration(Analyzed[message].tm.amount, Analyzed[message].tm.unit),
      user_name |-> user.name] :
        message \in {x \in SchedMessages : Analyzed[x].branch = "schedule"
                                            /\ Analyzed[x].tm.matched},
        at \in 0..MaxTime, user \in Users}

IsPending(task) == \E i \in DOMAIN scheduled_tasks : scheduled_tasks[i] = task

WasExecuted(task) == \E i \in DOMAIN executed : executed[i].task = task

\* C7: while the scheduler loop keeps ticking and the process is not
\* restarted, every pending task whose due time has come is eventually executed
\* and removed from the pending set; after a successful actuation the device's
\* status is the task's action.
C7_DueTaskEventuallyExecuted ==
    /\ \A task \in CreatableTasks :
          (IsPending(task) /\ task.scheduled_time <= now)
              ~> (~IsPending(task) /\ WasExecuted(task))
    /\ [](\A i \in DOMAIN executed :
             executed[i].success =>
                 executed[i].status_after = executed[i].task.action)

\* a due task was executed with success and is no longer pending
C7_Witness ==
    \E i \in DOMAIN executed :
        /\ executed[i].success
        /\ executed[i].status_before # executed[i].task.action
        /\ executed[i].status_after = executed[i].task.action
        /\ ~IsPending(executed[i].task)
        /\ sched_pc = "idle"

\* C8: each scheduled task is executed exactly once, never twice in one run and
\* never again after a restart that reloads the stored task list, also when
\* the restart falls between the execution and the saving of the removal.
C8_ExecutedOnce ==
    \A i \in DOMAIN created :
        Count([j \in DOMAIN executed |-> executed[j].task], created[i])
            <= Count(created, created[i])

\* C9: the scheduler executes a task only at a tick whose current time is not
\* earlier than the task's scheduled time.
C9_NeverEarly ==
    \A i \in DOMAIN executed :
        /\ executed[i].task.scheduled_time <= executed[i].tick
        /\ executed[i].tick <= executed[i].at

\* a task was executed at the very second it was due
C9_Witness ==
    \E i \in DOMAIN executed :
        /\ executed[i].task.scheduled_time = executed[i].tick
        /\ executed[i].tick > 0

\* executions of a task by the run in progress
RunCount(task) ==
    Cardinality({i \in DOMAIN executed :
                    executed[i].task = task /\ executed[i].run = restarts})

\* C10: when the actuation of a due task fails during a tick the device's
\* status is unchanged and no notification is emitted for the task; the tick
\* still removes the task from the pending set, and the scheduler loop that
\* executed it does not execute it again on a later tick.
C10_FailedTaskDropped ==
    /\ [](\A i \in DOMAIN executed :
             /\ ~executed[i].success =>
                   /\ executed[i].status_after = executed[i].status_before
                   /\ ~executed[i].emitted
             /\ RunCount(executed[i].task) <= Count(available, executed[i].task))
    /\ [][(sched_pc = "scan" /\ sched_pc' = "security") =>
             \A i \in DOMAIN tasks_to_remove :
                 Count(scheduled_tasks', tasks_to_remove[i])
                     = Count(scheduled_tasks, tasks_to_remove[i])
                         - Count(tasks_to_remove, tasks_to_remove[i])]_vars

\* a task whose actuation failed was removed by its tick and a later tick of the
\* same run has scanned the pending set
C10_Witness ==
    \E i \in DOMAIN executed :
        /\ ~executed[i].success
        /\ executed[i].run = restarts
        /\ ~IsPending(executed[i].task)
        /\ sched_pc = "scan"
        /\ current_time > executed[i].tick

C12_WashingMachineOnly ==
    LET text == Lower(last.message)
        action == IF AnyIn(text, OnKeywords) THEN "on" ELSE "off"
    IN  (/\ last.op = "send_message"
         /\ Contains(text, "washing machine")
         /\ ~Contains(text, "schedule") /\ ~Contains(text, "timer")
         /\ AnyIn(text, OnKeywords \cup OffKeywords))
        => /\ Contains(last.reply, "Washing Machine")
           /\ last.after["washing_machine"] = action
           /\ last.after["ac"] = last.before["ac"]
           /\ last.after["light"] = last.before["light"]

\* a command that names the air-conditioner and the washing machine has
\* switched the washing machine off while the air-conditioner was on
C12_Witness ==
    /\ last.op = "send_message"
    /\ last.message = "switch off the ac and the washing machine"
    /\ last.before["ac"] = "on" /\ last.before["washing_machine"] = "on"
    /\ last.after["ac"] = "on" /\ last.after["washing_machine"] = "off"
    /\ Contains(last.reply, "Washing Machine turned OFF")

IsIn(seq, x) == \E i \in DOMAIN seq : seq[i] = x

\* C13: every notification whose add_pending_notification call has returned
\* is in self.pending_notifications and in pending_notifications.json (the
\* cap evicts nothing in SpecThreads)
C13_NoLostUpdate ==
    \A i \in DOMAIN completed :
        /\ IsIn(pending_notifications, completed[i])
        /\ IsIn(notifications_file, completed[i])

\* C14: once stop_scheduler has returned, the scheduler thread begins no tick
\* and executes no task, and the notification thread dequeues nothing
C14_NothingAfterStop ==
    [][phase = "stopped"
        => /\ ~(sched_pc = "idle" /\ sched_pc' = "scan")
           /\ Len(executed') = Len(executed)
           /\ Len(notification_queue') >= Len(notification_queue)]_vars

\* C15: whenever the process is killed, each of the three files holds a whole
\* JSON document, the one before the save or the one after it
C15_FilesWhole ==
    \A file \in FileNames : Stored(Memory, file) # Undecodable(file)

\* C16: the status of each of the three devices is on or off
C16_StatusOnOrOff ==
    \A device_name \in Devices : home_devices[device_name] \in {"on", "off"}

\* a restarted server that has received no command has executed a task it
\* loaded from scheduled_tasks.json, and the task changed the device's status
C16_Witness ==
    /\ restarts = 1
    /\ last.op = "none"
    /\ \E i \in DOMAIN executed :
          /\ executed[i].run = 1
          /\ executed[i].success
          /\ executed[i].status_before = "off"
          /\ executed[i].status_after = "on"
          /\ home_devices[executed[i].task.device] = "on"

LogQuery == last.op = "send_message" /\ last.message = "log details"

\* C17: on an empty events.log the reply to 'log details' is exactly "No log
\* entries found."; otherwise it lists min(20, number of entries) entries of
\* the log in descending timestamp order, and no entry left out has a
\* greater timestamp than a listed one
C17_LogDetails ==
    LogQuery =>
        IF events_log = <<>>
        THEN last.reply = "No log entries found." /\ last.listed = <<>>
        ELSE LET listed == last.listed
                 left == Len(events_log) - Len(listed)
             IN  /\ last.reply # "No log entries found."
                 /\ Len(listed) = IF Len(events_log) < 20 THEN Len(events_log) ELSE 20
                 /\ \A i \in 1..(Len(listed) - 1) :
                        listed[i].timestamp >= listed[i + 1].timestamp
                 /\ \A i \in DOMAIN listed :
                        Count(listed, listed[i]) <= Count(events_log, listed[i])
                 /\ \A i \in DOMAIN events_log :
                        \/ events_log[i].timestamp >= listed[Len(listed)].timestamp
                        \/ Count(listed, events_log[i]) = 0
                 /\ \A i \in DOMAIN events_log :
                        events_log[i].timestamp > listed[Len(listed)].timestamp
                            => Count(listed, events_log[i]) = Count(events_log, events_log[i])

\* the log details of a log of more than 20 lines, not in timestamp order,
\* were asked for: 20 entries are listed and an older one is left out
C17_Witness ==
    /\ LogQuery
    /\ Len(events_log) > 20
    /\ Len(last.listed) = 20
    /\ events_log[1].timestamp > events_log[4].timestamp
    /\ \E i \in DOMAIN events_log : Count(last.listed, events_log[i]) = 0

\* C18: control_gpio_device in hardware mode calls GPIO.output at most 3
\* times; when the first `fails` calls raise and fails < 3 it returns True
\* after fails + 1 calls; it returns False exactly when 3 calls in a row
\* raised
C18_RetriesThenFails ==
    (last.op = "control_gpio_device" /\ GPIO_AVAILABLE)
        => /\ last.attempts <= 3
           /\ LastResult(last) = (last.fails < 3)
           /\ LastResult(last) => last.attempts = last.fails + 1
           /\ ~LastResult(last) => last.attempts = 3
           /\ Len(last.results) = 1

\* GPIO.output raised twice and the third call drove the pin
C18_Witness ==
    /\ last.op = "control_gpio_device"
    /\ GPIO_AVAILABLE
    /\ last.fails = 2 /\ last.attempts = 3 /\ LastResult(last)
    /\ last.message = "on" /\ gpio_pins[last.user_name] = "LOW"

\* the on/off commands among Messages, with the device and status they ask for
DeviceCommands ==
    {[message |-> "Turn on the light", device |-> "light", action |-> "on"],
     [message |-> "turn off the light", device |-> "light", action |-> "off"],
     [message |-> "switch on the ac", device |-> "ac", action |-> "on"],
     [message |-> "turn on the washing machine", device |-> "washing_machine",
      action |-> "on"]}

\* C19: in simulation mode an on/off command leaves the device in the
\* requested status, 'initialize security system' leaves the security system
\* active and 'terminate security system' leaves it inactive
C19_SimulationSucceeds ==
    (~GPIO_AVAILABLE /\ last.op = "send_message")
        => /\ \A c \in DeviceCommands :
                 last.message = c.message => last.after[c.device] = c.action
           /\ last.message = "initialize security system" => security_system_active
           /\ last.message = "terminate security system" => ~security_system_active

FailureReply(user_name) ==
    "Sorry " \o user_name \o ", I encountered an error processing your request."

\* C20: a command on which generate_response raises is answered with the
\* generic failure reply and changes no device, task or notification; a
\* command that follows it is answered as usual: 'hello' with the greeting,
\* 'Turn on the light' with the light switched and the success or error reply
\* of its actuation
C20_FaultIsContained ==
    /\ (last.op = "send_message" /\ last.message \in FaultMessages)
            => /\ last.reply = FailureReply(last.user_name)
               /\ last.after = last.before
               /\ last.new_tasks = <<>>
               /\ last.added = 0
               /\ Len(pending_notifications) = last.len_before
    /\ (last.op = "send_message" /\ total_messages_processed = 2)
            => /\ last.message = "hello"
                   => last.reply = "Hello " \o last.user_name
                                   \o "! Welcome to ToggleTalk Server!"
               /\ last.message = "Turn on the light"
                   => /\ last.after["light"] = "on"
                      /\ Len(last.results) = 1
                      /\ IF LastResult(last) THEN last.reply = "Light turned ON."
                         ELSE IsErrorReply(last.reply)

\* the light was switched on by a command that followed a faulty one
C20_Witness ==
    /\ total_messages_processed = 2
    /\ last.op = "send_message"
    /\ last.message = "Turn on the light"
    /\ last.before["light"] = "off" /\ home_devices["light"] = "on"
    /\ last.reply = "Light turned ON."

\* the same environment with a storage that takes every write
Working(env) == [env EXCEPT !.save_ok = TRUE, !.log_ok = TRUE]

\* two handler results that differ in nothing but the files and the events log
SameButFiles(r, g) ==
    /\ r.reply = g.reply
    /\ r.listed = g.listed
    /\ r.m.home_devices = g.m.home_devices
    /\ r.m.gpio_pins = g.m.gpio_pins
    /\ r.m.security = g.m.security
    /\ r.m.chat_ids = g.m.chat_ids
    /\ r.m.scheduled_tasks = g.m.scheduled_tasks
    /\ r.m.pending = g.m.pending
    /\ r.m.queue = g.m.queue
    /\ r.m.results = g.m.results

\* C21: whatever writes fail (all attempts of a save, the append to the events
\* log), a command returns, with the reply and the in-memory effects it has
\* when every write succeeds; only the files and the events log differ
C21_WriteFailuresNotRaised ==
    \A message \in PersistMessages, user \in Users, env \in WriteEnvs :
        LET r == send_message(Memory, message, user, env)
        IN  /\ r.reply # OverflowError
            /\ SameButFiles(r, send_message(Memory, message, user, Working(env)))

\* a scheduling command was answered although neither the tasks file nor the
\* events log took the write
C21_Witness ==
    /\ last.op = "send_message"
    /\ last.message = "schedule switch off light in 1 second"
    /\ StartsWith(last.reply, "Scheduled Light to turn OFF")
    /\ Len(scheduled_tasks) = 1
    /\ tasks_file = <<>>
    /\ events_log = <<>>

\* the texts that contain 'schedule' or 'timer'
SchedulingText ==
    [message \in Inputs |->
        Contains(Lower(message), "schedule") \/ Contains(Lower(message), "timer")]

\* C22: while a command whose text contains 'schedule' or 'timer' is
\* processed, no device status, no pin and no security state changes, whatever
\* device, action or security keywords the text also contains
C22_SchedulingOnly ==
    [][(received' = received + 1 /\ last'.op = "send_message"
            /\ SchedulingText[last'.message])
        => /\ home_devices' = home_devices
           /\ gpio_pins' = gpio_pins
           /\ security_system_active' = security_system_active]_vars

\* 'schedule initialize security system in 1 second' was processed on
\* hardware and the security system is not active
C22_Witness ==
    /\ last.op = "send_message"
    /\ last.message = "schedule initialize security system in 1 second"
    /\ GPIO_AVAILABLE
    /\ ~security_system_active
    /\ last.reply = "Could not determine device or action for scheduling."

\* the 'turned ON/OFF' notifications among the pending ones
TurnedNotifications ==
    {i \in 1..Len(pending_notifications) : pending_notifications[i].text.kind = "device"}

\* C23: after a scheduling command, and before any task has been executed, the
\* pending notifications hold no device 'turned ON/OFF' notification
C23_NoNotificationWhenScheduling ==
    (last.op = "send_message" /\ SchedulingText[last.message] /\ executed = <<>>)
        => TurnedNotifications = {}

\* scheduling texts without an 'in N unit' part, without a device or without
\* an action, and the reply each gets
Unschedulable ==
    [message \in {"turn on the light timer", "Schedule: switch on ac"}
        |-> UnsupportedFormatReply]
    @@ [message \in {"schedule initialize security system in 1 second",
                     "schedule light on in 5 seconds",
                     "schedule turn on in 3 seconds"}
        |-> "Could not determine device or action for scheduling."]

\* C24: a scheduling command without an 'in N unit' match, without a device or
\* without an action gets its error reply, and neither the pending tasks nor
\* the tasks file change
C24_UnschedulableIsRejected ==
    [][(received' = received + 1 /\ last'.op = "send_message"
            /\ last'.message \in DOMAIN Unschedulable)
        => /\ last'.reply = Unschedulable[last'.message]
           /\ scheduled_tasks' = scheduled_tasks
           /\ tasks_file' = tasks_file]_vars

\* 'schedule light on in 5 seconds' names a device but no action: no task
C24_Witness ==
    /\ last.op = "send_message"
    /\ last.message = "schedule light on in 5 seconds"
    /\ last.reply = "Could not determine device or action for scheduling."
    /\ scheduled_tasks = <<>>
    /\ tasks_file = <<>>

\* where each security command should go by its secondary keyword
SecurityRoute ==
    [message \in {"initialize security system", "arm the security system"}
        |-> "initialize"]
    @@ [message \in {"terminate security system", "stop intruder detection",
                     "disarm security system", "deactivate the laser"}
        |-> "terminate"]
    @@ [message \in {"security status"} |-> "query"]

InitializeReplies ==
    {"Home Security System INITIALIZED. Laser module activated and monitoring for intruders.",
     "Error initializing security system"}

TerminateReplies ==
    {"Home Security System TERMINATED. All modules deactivated.",
     "Error terminating security system"}

\* C25: on hardware a security command with terminate, stop, deactivate or
\* disarm is answered by terminate_security_system and one with initialize,
\* start, activate or arm by initialize_security_system; one with neither is
\* answered with the current status and changes neither the security state
\* nor a pin
C25_SecurityRouting ==
    [][(total_messages_processed' = total_messages_processed + 1
            /\ last'.op = "send_message" /\ last'.message \in DOMAIN SecurityRoute)
        => /\ (GPIO_AVAILABLE /\ SecurityRoute[last'.message] = "terminate")
                => last'.reply \in TerminateReplies
           /\ (GPIO_AVAILABLE /\ SecurityRoute[last'.message] = "initialize")
                => last'.reply \in InitializeReplies
           /\ SecurityRoute[last'.message] = "query"
                => /\ StartsWith(last'.reply, "Home Security System is currently ")
                   /\ security_system_active' = security_system_active
                   /\ gpio_pins' = gpio_pins]_vars

\* how many security notifications with this word a list holds
CountSecurity(pending, what) ==
    Cardinality({i \in 1..Len(pending) :
                    pending[i].text.kind = "security" /\ pending[i].text.what = what})

\* C26: on hardware, when no pin call raises, an initialize command received
\* while the security system is active, and a terminate command received while
\* it is inactive, still drive the laser and buzzer pins, leave the system in
\* the target state, add exactly one INITIALIZED or TERMINATED notification
\* and append to the events log
C26_RepeatedIntentActsAgain ==
    [][(total_messages_processed' = total_messages_processed + 1
            /\ last'.op = "send_message" /\ GPIO_AVAILABLE)
        => /\ (security_system_active
                 /\ last'.message \in {"initialize security system", "arm the security system"}
                 /\ last'.reply # "Error initializing security system")
                => /\ security_system_active'
                   /\ gpio_pins'["laser_module"] = "HIGH" /\ gpio_pins'["buzzer"] = "LOW"
                   /\ CountSecurity(pending_notifications', "INITIALIZED")
                        = CountSecurity(pending_notifications, "INITIALIZED") + 1
                   /\ Len(events_log') > Len(events_log)
           /\ (~security_system_active
                 /\ last'.message \in {"terminate security system", "stop intruder detection"}
                 /\ last'.reply # "Error terminating security system")
                => /\ ~security_system_active'
                   /\ gpio_pins'["laser_module"] = "LOW" /\ gpio_pins'["buzzer"] = "LOW"
                   /\ CountSecurity(pending_notifications', "TERMINATED")
                        = CountSecurity(pending_notifications, "TERMINATED") + 1
                   /\ Len(events_log') > Len(events_log)]_vars

\* the security system was initialized twice in a row
C26_Witness ==
    /\ last.op = "send_message"
    /\ last.message = "initialize security system"
    /\ total_messages_processed = 2
    /\ security_system_active
    /\ CountSecurity(pending_notifications, "INITIALIZED") = 2

\* C27: after an on/off command that succeeded, every 'turned' notification
\* in the pending list names the device whose status the command set and the
\* action it applied
C27_NotificationNamesDevice ==
    \A c \in DeviceCommands :
        (last.op = "send_message" /\ last.message = c.message
            /\ ~IsErrorReply(last.reply) /\ executed = <<>>)
        => \A i \in TurnedNotifications :
              pending_notifications[i].text.what =
                  get_device_user_name(c.device) \o " turned " \o Upper(c.action)

\* the device the immediate-command matching of process_home_automation
\* selects: washing machine, then the air-conditioner heuristics, then light
ImmediateDevice(text) ==
    IF Contains(text, "washing machine") THEN "washing_machine"
    ELSE IF MatchesAc(text) THEN "ac"
    ELSE IF Contains(text, "light") THEN "light"
    ELSE "None"

ImmediateMatch == [message \in Inputs |-> ImmediateDevice(Lower(message))]

\* C28: the task a scheduling command creates records the device that the
\* immediate-command matching selects for the same text, and the action its
\* on/off keywords name
C28_SchedulerMatchesLikeImmediate ==
    (last.op = "send_message" /\ last.new_tasks # <<>>)
        => /\ last.new_tasks[1].device = ImmediateMatch[last.message]
           /\ last.new_tasks[1].action = ScheduleAction(Lower(last.message))

\* C29: a scheduler step that executes a due task with success appends exactly
\* one entry to the pending notifications, the 'turned ON/OFF' notification of
\* the task's device and action in the name of the user who scheduled it
C29_ExecutionNotifiesPollers ==
    [][(Len(executed') = Len(executed) + 1 /\ executed'[Len(executed')].success)
        => /\ Len(pending_notifications') = Len(pending_notifications) + 1
           /\ LET task == executed'[Len(executed')].task
                  added == pending_notifications'[Len(pending_notifications')].text
              IN  /\ added.kind = "device"
                  /\ added.actor = task.user_name
                  /\ added.what = get_device_user_name(task.device) \o " turned "
                                    \o Upper(task.action)]_vars

\* C30: whenever the security monitor has switched the buzzer on for an alert,
\* the buzzer pin is eventually LOW again
C30_BuzzerEventuallyOff ==
    (sched_pc = "hold" /\ gpio_pins["buzzer"] = "HIGH") ~> (gpio_pins["buzzer"] = "LOW")

\* C31: a security check that raises an alert appends exactly one [ALERT]
\* notification to the pending notifications and exactly one entry to the
\* events log
C31_AlertNotifiesAndLogs ==
    [][alerts' = alerts + 1
        => /\ Len(pending_notifications') = Len(pending_notifications) + 1
           /\ pending_notifications'[Len(pending_notifications')].text.kind = "alert"
           /\ Len(events_log') = Len(events_log) + 1]_vars

\* the security monitor holds the buzzer on for an alert
HoldInProgress == sched_pc = "hold" \/ (alerts > 0 /\ gpio_pins["buzzer"] = "HIGH")

\* C32: while an alert hold is in progress no scheduled task is executed and
\* no tick begins; a task that became due during the hold is still pending
\* when the hold ends
C32_NoExecutionDuringHold ==
    [][HoldInProgress
        => /\ executed' = executed
           /\ Len(scheduled_tasks') >= Len(scheduled_tasks)
           /\ \A i \in 1..Len(scheduled_tasks) : scheduled_tasks'[i] = scheduled_tasks[i]
           /\ sched_pc' \in {"hold", "idle"}]_vars

\* a task became due while the buzzer was held on, and is still pending
C32_Witness ==
    /\ sched_pc = "hold"
    /\ gpio_pins["buzzer"] = "HIGH"
    /\ Len(scheduled_tasks) = 1
    /\ scheduled_tasks[1].scheduled_time > current_time
    /\ scheduled_tasks[1].scheduled_time <= now
    /\ executed = <<>>

\* C33: the security monitor raises an alert only in a state in which the
\* security system is active
C33_AlertOnlyWhileActive ==
    [][alerts' = alerts + 1 => security_system_active]_vars

\* C34: no two entries of the pending-notification collection have the same
\* id, so adding a notification whose text and timestamp equal those of an
\* entry leaves the collection without a second such entry
C34_NoDuplicateIds ==
    \A i, j \in 1..Len(pending_notifications) :
        i # j => pending_notifications[i].id # pending_notifications[j].id

\* C35: while the scheduler is running the loop always performs another tick,
\* whatever fault a tick or a security check has raised before
C35_LoopKeepsTicking == [](scheduler_running => <>(sched_pc = "scan"))

IsPendingTask(task) == \E i \in 1..Len(scheduled_tasks) : scheduled_tasks[i] = task

\* C36: a due task of the pending set is eventually executed and removed,
\* also when the set holds a record the tick cannot evaluate
C36_OtherTasksStillRun ==
    IsPendingTask(DueTask)
        ~> (~IsPendingTask(DueTask) /\ \E i \in 1..Len(executed) : executed[i].task = DueTask)

\* the positions inside the body of `while self.scheduler_running`
InTick == {"scan", "security", "reading", "hold"}

\* C37: at no time are two scheduler loops executing ticks: while the thread
\* of the last start_scheduler is in a tick, no earlier thread has entered
\* the loop body again
C37_AtMostOneLoop == ~(sched_pc \in InTick /\ previous_pc = "ticking")

\* the relays are active low
LevelOf(status) == IF status = "on" THEN "LOW" ELSE "HIGH"

\* C38: with the hardware present and no scheduler tick in progress (a
\* command is one step), every device's status is the level its pin was last
\* driven to
C38_StatusMatchesPin ==
    (GPIO_AVAILABLE /\ sched_pc = "idle")
        => \A device_name \in Devices :
              gpio_pins[device_name] = LevelOf(home_devices[device_name])

\* C39: with no scheduler tick in progress (a scheduling command is one
\* step) and every save succeeding, scheduled_tasks.json holds the pending
\* set of the memory
C39_FileEqualsPending == sched_pc = "idle" => tasks_file = scheduled_tasks

\* C40: every notification add_pending_notification has put into the
\* collection is in the list a following get_pending_notifications returns,
\* also when the write of that add failed on all its attempts
C40_AddedIsReturned ==
    [][(last_get'.valid /\ last_get'.result = pending_notifications')
        => \A i \in 1..Len(pending_notifications) :
              IsIn(pending_notifications', pending_notifications[i])]_vars

=============================================================================
